---------------------------- MODULE Spec2Model ----------------------------
(***************************************************************************)
(* A model of the Express data service of Pragament/expressjs_api_gps_info *)
(* (src/server.js and the variants collected in src/unnamed/part_000).     *)
(*                                                                         *)
(* Conventions                                                             *)
(*   - A JavaScript string that the code parses, splits or normalizes is a *)
(*     sequence of one-character strings (<<"1","7",".","0">> is "17.0").  *)
(*     A string the code only compares or copies is a TLA+ string.         *)
(*   - A value that may be undefined/null is a sequence of length <= 1:    *)
(*     None is undefined/null, Some(v) is v.                               *)
(*   - Numbers with a fraction are fixed point with three decimals: a      *)
(*     latitude or longitude is in thousandths of a degree, a distance or  *)
(*     a radius is in thousandths of a kilometre (metres).  An angle in    *)
(*     radians is in tenths of a millionth of a radian.                    *)
(*   - Every handler runs to completion (Node's event loop runs one        *)
(*     callback at a time): one action per handler.  res is the response   *)
(*     on its way to the client; the client takes it before it sends the   *)
(*     next request.                                                       *)
(***************************************************************************)
EXTENDS Integers, Sequences, FiniteSets, TLC

VARIABLES
    jsonData,           \* the item collection (data.json)
    neighborhoodsData,  \* the neighborhoods gazetteer
    pincodeData,        \* the postal directory
    res                 \* the response in flight, [kind |-> "none"] when none

vars == <<jsonData, neighborhoodsData, pincodeData, res>>

-----------------------------------------------------------------------------
(* Bounds of the model *)

MaxNeighborhoods == 2
MaxPostal == 2
MaxItems == 3
MaxSteps == 3

-----------------------------------------------------------------------------
(* JavaScript values *)

None == <<>>
Some(v) == <<v>>
IsSome(o) == Len(o) > 0
Get(o) == o[1]

\* JavaScript truthiness of a possibly absent string and of a possibly
\* absent number: undefined, null, "" and 0 are falsy.
TruthyStr(o) == IsSome(o) /\ Len(Get(o)) > 0
TruthyAtom(o) == IsSome(o) /\ Get(o) # ""
TruthyNum(o) == IsSome(o) /\ Get(o) # 0

NaN == [nan |-> TRUE, v |-> 0]
Num(n) == [nan |-> FALSE, v |-> n]
isNaN(x) == x.nan

Abs(x) == IF x < 0 THEN -x ELSE x
Sgn(x) == IF x < 0 THEN -1 ELSE 1
Min(a, b) == IF a <= b THEN a ELSE b
Max(a, b) == IF a >= b THEN a ELSE b

Front(s) == SubSeq(s, 1, Len(s) - 1)
Last(s) == s[Len(s)]

\* The sequences of at most n different elements of S.
SeqsUpTo(S, n) ==
    UNION {{s \in [1..k -> S] : \A i, j \in 1..k : i # j => s[i] # s[j]} : k \in 0..n}

IsDigit(c) == c \in {"0", "1", "2", "3", "4", "5", "6", "7", "8", "9"}
DigitVal(c) ==
    CASE c = "0" -> 0 [] c = "1" -> 1 [] c = "2" -> 2 [] c = "3" -> 3
      [] c = "4" -> 4 [] c = "5" -> 5 [] c = "6" -> 6 [] c = "7" -> 7
      [] c = "8" -> 8 [] c = "9" -> 9
DigitChar(d) == <<"0", "1", "2", "3", "4", "5", "6", "7", "8", "9">>[d + 1]

\* The number of digits s starts with.
RECURSIVE LeadDigits(_)
LeadDigits(s) ==
    IF s = <<>> \/ ~IsDigit(Head(s)) THEN 0 ELSE 1 + LeadDigits(Tail(s))

\* The value of a sequence of digits.
RECURSIVE DigitsValue(_)
DigitsValue(s) ==
    IF s = <<>> THEN 0 ELSE 10 * DigitsValue(Front(s)) + DigitVal(Last(s))

Unsigned(s) == IF s # <<>> /\ Head(s) \in {"-", "+"} THEN Tail(s) ELSE s
SignOf(s) == IF s # <<>> /\ Head(s) = "-" THEN -1 ELSE 1

\* parseFloat: the longest prefix  [+-] digits [. digits]  of the string,
\* NaN when that prefix holds no digit.  The value is kept to three
\* decimals (further digits are cut); the strings of the model hold no
\* leading blanks and no exponent.
parseFloat(s) ==
    LET body == Unsigned(s)
        ni == LeadDigits(body)
        rest == SubSeq(body, ni + 1, Len(body))
        nf == IF rest # <<>> /\ Head(rest) = "." THEN LeadDigits(Tail(rest)) ELSE 0
        fr == SubSeq(rest, 2, 1 + Min(nf, 3))
        scale == CASE Len(fr) = 0 -> 1000 [] Len(fr) = 1 -> 100
                   [] Len(fr) = 2 -> 10 [] OTHER -> 1
    IN  IF ni = 0 /\ nf = 0 THEN NaN
        ELSE Num(SignOf(s) * (DigitsValue(SubSeq(body, 1, ni)) * 1000
                              + DigitsValue(fr) * scale))

\* parseInt (radix 10): the longest prefix  [+-] digits, NaN when it holds
\* no digit.
parseInt(s) ==
    LET body == Unsigned(s)
        ni == LeadDigits(body)
    IN  IF ni = 0 THEN NaN
        ELSE Num(SignOf(s) * DigitsValue(SubSeq(body, 1, ni)))

-----------------------------------------------------------------------------
(* Geo-distance engine *)

R == 6371  \* Earth radius in km

\* x * Math.PI / 180: thousandths of a degree to tenths of a millionth of
\* a radian (pi/180 = 0.017453), cut towards zero.
toRad(x) == Sgn(x) * ((Abs(x) * 17453) \div 100)

\* The integer square root.
RECURSIVE IsqrtFrom(_, _)
IsqrtFrom(n, r) == IF (r + 1) * (r + 1) > n THEN r ELSE IsqrtFrom(n, r + 1)
RECURSIVE Isqrt(_)
Isqrt(n) ==
    IF n < 4 THEN IsqrtFrom(n, 0)
    ELSE LET h == 2 * Isqrt(n \div 4) IN IF (h + 1) * (h + 1) > n THEN h ELSE h + 1

\* Math.cos in thousandths, of an angle in tenths of a millionth of a
\* radian: 1 - x^2/2 + x^4/24 with x in thousandths of a radian.
cos(x) ==
    LET m == x \div 10000
        sq == m * m
    IN  1000 - (sq \div 2000) + (((sq \div 1000) * (sq \div 1000)) \div 24000)

\* A variant of haversineDistance that takes the cosine of the first
\* latitude for both points.
haversineCosFirst(lat1, lon1, lat2, lon2) ==
    LET dLat == toRad(lat2 - lat1)
        dLon == toRad(lon2 - lon1)
        cc == (cos(toRad(lat1)) * cos(toRad(lat1))) \div 1000
        a4 == dLat * dLat + (((cc * Abs(dLon)) \div 1000) * Abs(dLon))
        c == Isqrt(a4)
    IN  (R * c) \div 10000

\* The haversine distance in metres.  The points of one query lie within a
\* fraction of a degree of each other, where sin(x/2)^2 is x^2/4 and
\* 2*atan2(sqrt(a), sqrt(1-a)) is 2*sqrt(a) to within a millimetre, so that
\* c = sqrt(dLat^2 + cos(lat1)*cos(lat2)*dLon^2), in tenths of a millionth
\* of a radian.
haversineDistance(lat1, lon1, lat2, lon2) ==
    LET dLat == toRad(lat2 - lat1)
        dLon == toRad(lon2 - lon1)
        cc == (cos(toRad(lat1)) * cos(toRad(lat2))) \div 1000
        a4 == dLat * dLat + (((cc * Abs(dLon)) \div 1000) * Abs(dLon))
        c == Isqrt(a4)
    IN  (R * c) \div 10000

\* parseFloat(distance.toFixed(2)): the distance rounded to two decimals
\* of a kilometre, half up.
toFixed2(d) == ((d + 5) \div 10) * 10


\* Array.prototype.sort((a, b) => key(a) - key(b)) on a sequence of
\* <<key, element>> pairs: a stable sort (ECMAScript 2019, V8 7.0), here by
\* insertion after the last pair whose key is not greater.
\* A variant of InsertByKey that puts an element before its equals (a sort
\* that is not stable).
RECURSIVE InsertBeforeEqual(_, _)
InsertBeforeEqual(sorted, p) ==
    IF sorted = <<>> THEN <<p>>
    ELSE IF Last(sorted)[1] < p[1] THEN Append(sorted, p)
    ELSE Append(InsertBeforeEqual(Front(sorted), p), Last(sorted))

RECURSIVE InsertByKey(_, _)
InsertByKey(sorted, p) ==
    IF sorted = <<>> THEN <<p>>
    ELSE IF Last(sorted)[1] <= p[1] THEN Append(sorted, p)
    ELSE Append(InsertByKey(Front(sorted), p), Last(sorted))
RECURSIVE SortByKey(_)
SortByKey(pairs) ==
    IF pairs = <<>> THEN <<>>
    ELSE InsertByKey(SortByKey(Front(pairs)), Last(pairs))

\* nearbyPlaces.sort((a, b) => a.distance_km - b.distance_km)
SortByDistanceKm(places) ==
    LET sorted == SortByKey([i \in 1..Len(places) |-> <<places[i].distance_km, places[i]>>])
    IN  [i \in 1..Len(places) |-> sorted[i][2]]

Indices(s) == [i \in 1..Len(s) |-> i]

-----------------------------------------------------------------------------
(* The data files.  The records of the model carry the fields the handlers *)
(* read; idx (in a response entry) and rec (in a pincodeInfo) are not part *)
(* of the response: they name the position in its collection of the record *)
(* the entry was made from.                                                *)

Neighborhood(name, pin, lat, lon) ==
    [placeName |-> name, pincode |-> pin, latitude |-> lat, longitude |-> lon]

PostalRecord(pin, office, lat, lon) ==
    [Pincode |-> pin, OfficeName |-> office, Latitude |-> lat, Longitude |-> lon]

\* The constituency keys of a neighborhood record: None when the record
\* has no such key.
LokSabha(record, lokSabha, LokSabhaConstituency) ==
    record @@ [lokSabhaConstituency |-> lokSabha,
               LokSabhaConstituency |-> LokSabhaConstituency]

VidhanSabha(record, vidhanSabha, VidhanSabhaConstituency, AssemblyConstituency) ==
    record @@ [vidhanSabhaConstituency |-> vidhanSabha,
               VidhanSabhaConstituency |-> VidhanSabhaConstituency,
               AssemblyConstituency |-> AssemblyConstituency]

NeighborhoodPool ==
    { VidhanSabha(LokSabha(Neighborhood("Ameerpet", Some("500016"), 17005, 78000),
                           Some("N/A"), Some("Secunderabad")),
                  Some("Khairatabad"), None, None),
      VidhanSabha(LokSabha(Neighborhood("Begumpet", None, 17004, 78000),
                           None, Some("Secunderabad")),
                  Some(""), Some("N/A"), Some("Sanathnagar")),
      VidhanSabha(LokSabha(Neighborhood("Chandanagar", Some("500050"), 16996, 78000),
                           Some("Chevella"), None),
                  None, None, Some("Serilingampally")),
      VidhanSabha(LokSabha(Neighborhood("Dilsukhnagar", None, 17045, 78000),
                           Some("N/A"), None),
                  None, Some("Malakpet"), Some("N/A")) }

\* The StateName and District columns of a postal record: "" when the row
\* has no value in the column.
InState(record, state, district) ==
    record @@ [StateName |-> Some(state), District |-> Some(district)]

TELANGANA == <<"T", "E", "L", "A", "N", "G", "A", "N", "A">>
Telangana == <<"T", "e", "l", "a", "n", "g", "a", "n", "a">>
Andhra == <<"A", "n", "d", "h", "r", "a">>
Hyderabad == <<"H", "y", "d", "e", "r", "a", "b", "a", "d">>
Medak == <<"M", "e", "d", "a", "k">>

PostalPool ==
    { InState(PostalRecord("500016", "Ameerpet S.O", Some(17004), Some(78000)),
              Telangana, Hyderabad),
      InState(PostalRecord("500016", "S.R.Nagar S.O", Some(17044), Some(78000)),
              TELANGANA, Hyderabad),
      InState(PostalRecord("500003", "Begumpet S.O", Some(17003), Some(78004)),
              <<>>, Medak),
      InState(PostalRecord("500045", "Yousufguda S.O", None, None),
              Andhra, <<>>),
      InState(PostalRecord("500082", "Punjagutta S.O", Some(17004), Some(78000)),
              Telangana, Hyderabad) }

\* The query strings of the geo endpoints.
LatParams ==
    {None, Some(<<"1", "7", ".", "0">>), Some(<<"x">>), Some(<<"1", "7", ".", "0", "x">>)}
LngParams == {None, Some(<<"7", "8", ".", "0">>)}
RangeParams ==
    {None, Some(<<"0", ".", "5">>), Some(<<"0", ".", "5", "5", "6">>), Some(<<"5">>)}
GeoQueries == [lat : LatParams, lng : LngParams, range : RangeParams]

NoResponse == [kind |-> "none"]

\* The range of the query in metres: req.query.range, 50 when absent.
DefaultRange == 50000

\* const { lat, lng, range = 50 } = req.query; parseFloat(range)
RangeOrDefault(q) == IF IsSome(q.range) THEN parseFloat(Get(q.range)) ELSE Num(DefaultRange)

\* The 400 answers of the geo endpoints, FALSE when the parameters pass.
GeoMissing(q) == ~TruthyStr(q.lat) \/ ~TruthyStr(q.lng)
BadRequest(kind, q, message) ==
    [kind |-> kind, status |-> 400, query |-> q, message |-> message]

-----------------------------------------------------------------------------
(* GET /api/v1/neighborhoods/nearby *)

\* a || b || ... : the first truthy operand, the last operand when none is.
Or(values) ==
    LET truthy == {k \in 1..Len(values) : TruthyAtom(values[k])}
    IN  IF truthy = {} THEN values[Len(values)]
        ELSE values[CHOOSE k \in truthy : \A m \in truthy : k <= m]

\* (value && value !== 'N/A') ? value : null
NotNA(value) == IF TruthyAtom(value) /\ Get(value) # "N/A" THEN value ELSE None

lokSabhaConstituency(place) ==
    NotNA(Or(<<place.lokSabhaConstituency, place.LokSabhaConstituency>>))

vidhanSabhaConstituency(place) ==
    NotNA(Or(<<place.vidhanSabhaConstituency, place.VidhanSabhaConstituency,
               place.AssemblyConstituency>>))

NeighborhoodsNearbyEntry(i, latitude, longitude) ==
    LET place == neighborhoodsData[i]
        distance == haversineDistance(latitude, longitude, place.latitude, place.longitude)
    IN  [placeName |-> place.placeName,
         pincode |-> place.pincode,
         lokSabhaConstituency |-> lokSabhaConstituency(place),
         vidhanSabhaConstituency |-> vidhanSabhaConstituency(place),
         distance_km |-> toFixed2(distance),
         idx |-> i]

NeighborhoodsNearbyResults(latitude, longitude, maxDistance) ==
    LET mapped == [i \in 1..Len(neighborhoodsData) |->
                      NeighborhoodsNearbyEntry(i, latitude, longitude)]
        kept == SelectSeq(mapped, LAMBDA place : place.distance_km <= maxDistance)
    IN  SortByDistanceKm(kept)

NeighborhoodsNearby(q) ==
    /\ res = NoResponse
    /\ res' =
         IF GeoMissing(q)
         THEN BadRequest("neighborhoods_nearby", q, "lat and lng query parameters are required")
         ELSE LET latitude == parseFloat(Get(q.lat))
                  longitude == parseFloat(Get(q.lng))
                  maxDistance == IF TruthyStr(q.range) THEN parseFloat(Get(q.range))
                                 ELSE Num(DefaultRange)
              IN  IF isNaN(latitude) \/ isNaN(longitude) \/ isNaN(maxDistance)
                  THEN BadRequest("neighborhoods_nearby", q,
                                  "lat, lng, and range must be valid numbers")
                  ELSE LET results == NeighborhoodsNearbyResults(latitude.v, longitude.v,
                                                                 maxDistance.v)
                       IN  [kind |-> "neighborhoods_nearby", status |-> 200, query |-> q,
                            count |-> Len(results),
                            input |-> [lat |-> latitude.v, lng |-> longitude.v,
                                       range |-> maxDistance.v],
                            places |-> results]
    /\ UNCHANGED <<jsonData, neighborhoodsData, pincodeData>>

-----------------------------------------------------------------------------
(* GET /api/v1/places/nearby and GET /api/v1/places/nearby/enhanced *)

\* The answer of either endpoint's parameter checks: a 400 response, or the
\* parsed latitude, longitude and maxDistance.
PlacesParams(kind, q) ==
    IF GeoMissing(q)
    THEN [ok |-> FALSE,
          bad |-> BadRequest(kind, q, "lat and lng query parameters are required")]
    ELSE LET latitude == parseFloat(Get(q.lat))
             longitude == parseFloat(Get(q.lng))
             maxDistance == RangeOrDefault(q)
         IN  IF isNaN(latitude) \/ isNaN(longitude) \/ isNaN(maxDistance)
             THEN [ok |-> FALSE,
                   bad |-> BadRequest(kind, q, "lat, lng, and range must be valid numbers")]
             ELSE [ok |-> TRUE, latitude |-> latitude.v, longitude |-> longitude.v,
                   maxDistance |-> maxDistance.v]

PlacesResponse(kind, q, p, nearbyPlaces) ==
    [kind |-> kind, status |-> 200, query |-> q,
     count |-> Len(nearbyPlaces),
     input |-> [lat |-> p.latitude, lng |-> p.longitude, range |-> p.maxDistance],
     places |-> nearbyPlaces]

\* The positions of the neighborhoods within maxDistance of the query point
\* (the unrounded distance is compared), in collection order.
NeighborhoodsInRange(latitude, longitude, maxDistance) ==
    SelectSeq(Indices(neighborhoodsData),
              LAMBDA i : haversineDistance(latitude, longitude,
                                           neighborhoodsData[i].latitude,
                                           neighborhoodsData[i].longitude) <= maxDistance)

HasCoordinates(record) == TruthyNum(record.Latitude) /\ TruthyNum(record.Longitude)

\* The positions of the postal records that have coordinates and lie within
\* maxDistance of the query point, in directory order.
PostalInRange(latitude, longitude, maxDistance) ==
    SelectSeq(Indices(pincodeData),
              LAMBDA j : /\ HasCoordinates(pincodeData[j])
                         /\ haversineDistance(latitude, longitude,
                                              Get(pincodeData[j].Latitude),
                                              Get(pincodeData[j].Longitude)) <= maxDistance)

NeighborhoodPlace(i, latitude, longitude, pincodeInfo) ==
    LET place == neighborhoodsData[i]
    IN  [type |-> "neighborhood",
         placeName |-> place.placeName,
         pincode |-> place.pincode,
         lokSabhaConstituency |-> lokSabhaConstituency(place),
         vidhanSabhaConstituency |-> vidhanSabhaConstituency(place),
         latitude |-> Some(place.latitude),
         longitude |-> Some(place.longitude),
         distance_km |-> toFixed2(haversineDistance(latitude, longitude,
                                                    place.latitude, place.longitude)),
         pincodeInfo |-> pincodeInfo,
         idx |-> i]

\* matchType and matchDistance are absent from the pincodeInfo of
\* /places/nearby and "direct" and 0 in that of /places/nearby/enhanced.
PincodePlace(j, latitude, longitude, matchType, matchDistance) ==
    LET record == pincodeData[j]
    IN  [type |-> "pincode",
         placeName |-> record.OfficeName,
         pincode |-> Some(record.Pincode),
         latitude |-> record.Latitude,
         longitude |-> record.Longitude,
         distance_km |-> toFixed2(haversineDistance(latitude, longitude,
                                                    Get(record.Latitude),
                                                    Get(record.Longitude))),
         pincodeInfo |-> Some([officeName |-> record.OfficeName,
                               pincode |-> record.Pincode,
                               matchType |-> matchType,
                               matchDistance |-> matchDistance,
                               rec |-> j]),
         idx |-> j]

PlacesNearbyResults(latitude, longitude, maxDistance) ==
    LET ns == NeighborhoodsInRange(latitude, longitude, maxDistance)
        ps == PostalInRange(latitude, longitude, maxDistance)
    IN  SortByDistanceKm(
            [k \in 1..Len(ns) |-> NeighborhoodPlace(ns[k], latitude, longitude, None)]
            \o [k \in 1..Len(ps) |-> PincodePlace(ps[k], latitude, longitude, None, None)])

PlacesNearby(q) ==
    /\ res = NoResponse
    /\ LET p == PlacesParams("places_nearby", q)
       IN  res' = IF ~p.ok THEN p.bad
                  ELSE PlacesResponse("places_nearby", q, p,
                                      PlacesNearbyResults(p.latitude, p.longitude,
                                                          p.maxDistance))
    /\ UNCHANGED <<jsonData, neighborhoodsData, pincodeData>>

\* The radius, in metres, of the nearest-pincode match.
MatchRadius == 5000

\* pincodeData.find(p => p.Pincode && p.Pincode.toString() === place.pincode.toString()):
\* the first record of the directory with the neighborhood's postal code.
ExactMatches(place) ==
    SelectSeq(Indices(pincodeData),
              LAMBDA j : /\ pincodeData[j].Pincode # ""
                         /\ pincodeData[j].Pincode = Get(place.pincode))

\* A variant of NearbyPincodes that leaves the records within 5 km in
\* directory order.
NearbyPincodesUnsorted(place) ==
    LET withCoords == SelectSeq(Indices(pincodeData),
                                LAMBDA j : HasCoordinates(pincodeData[j]))
        mapped == [k \in 1..Len(withCoords) |->
                      <<haversineDistance(place.latitude, place.longitude,
                                          Get(pincodeData[withCoords[k]].Latitude),
                                          Get(pincodeData[withCoords[k]].Longitude)),
                        withCoords[k]>>]
    IN  SelectSeq(mapped, LAMBDA p : p[1] <= MatchRadius)

\* The postal records with coordinates within 5 km of the neighborhood, as
\* <<distance, position>> pairs sorted by distance.
NearbyPincodes(place) ==
    LET withCoords == SelectSeq(Indices(pincodeData),
                                LAMBDA j : HasCoordinates(pincodeData[j]))
        mapped == [k \in 1..Len(withCoords) |->
                      <<haversineDistance(place.latitude, place.longitude,
                                          Get(pincodeData[withCoords[k]].Latitude),
                                          Get(pincodeData[withCoords[k]].Longitude)),
                        withCoords[k]>>]
    IN  SortByKey(SelectSeq(mapped, LAMBDA p : p[1] <= MatchRadius))

\* matchedPincode: null, or the matched record (rec, its position in the
\* directory) with the distance property the nearest search adds to it.
MatchedPincode(place) ==
    LET exact == IF TruthyAtom(place.pincode) THEN ExactMatches(place) ELSE <<>>
        nearbyPincodes == NearbyPincodes(place)
    IN  IF exact # <<>> THEN Some([rec |-> exact[1], distance |-> None])
        ELSE IF Len(nearbyPincodes) > 0
        THEN Some([rec |-> nearbyPincodes[1][2], distance |-> Some(nearbyPincodes[1][1])])
        ELSE None

EnhancedPincodeInfo(place) ==
    LET matchedPincode == MatchedPincode(place)
    IN  IF IsSome(matchedPincode)
        THEN LET m == Get(matchedPincode)
             IN  Some([officeName |-> pincodeData[m.rec].OfficeName,
                       pincode |-> pincodeData[m.rec].Pincode,
                       matchType |-> Some(IF TruthyAtom(place.pincode) THEN "exact"
                                          ELSE "nearest"),
                       matchDistance |-> Some(IF TruthyNum(m.distance)
                                              THEN toFixed2(Get(m.distance)) ELSE 0),
                       rec |-> m.rec])
        ELSE None

\* A variant of AlreadyIncluded that looks at the standalone entries only.
AlreadyIncludedAmongPincodes(nearbyPlaces, record) ==
    \E k \in 1..Len(nearbyPlaces) :
        /\ nearbyPlaces[k].type = "pincode"
        /\ TruthyAtom(nearbyPlaces[k].pincode)
        /\ Get(nearbyPlaces[k].pincode) = record.Pincode

\* alreadyIncluded: some entry pushed so far carries the record's postal code.
AlreadyIncluded(nearbyPlaces, record) ==
    \E k \in 1..Len(nearbyPlaces) :
        /\ TruthyAtom(nearbyPlaces[k].pincode)
        /\ Get(nearbyPlaces[k].pincode) = record.Pincode

\* pincodeData.forEach(record => ...) from the record at position j on.
RECURSIVE AddStandalone(_, _, _, _, _)
AddStandalone(nearbyPlaces, j, latitude, longitude, maxDistance) ==
    IF j > Len(pincodeData) THEN nearbyPlaces
    ELSE LET record == pincodeData[j]
             push == /\ HasCoordinates(record)
                     /\ haversineDistance(latitude, longitude, Get(record.Latitude),
                                          Get(record.Longitude)) <= maxDistance
                     /\ ~AlreadyIncluded(nearbyPlaces, record)
         IN  AddStandalone(
                 IF push
                 THEN Append(nearbyPlaces,
                             PincodePlace(j, latitude, longitude, Some("direct"), Some(0)))
                 ELSE nearbyPlaces,
                 j + 1, latitude, longitude, maxDistance)

PlacesEnhancedResults(latitude, longitude, maxDistance) ==
    LET ns == NeighborhoodsInRange(latitude, longitude, maxDistance)
        neighborhoods == [k \in 1..Len(ns) |->
                             NeighborhoodPlace(ns[k], latitude, longitude,
                                               EnhancedPincodeInfo(neighborhoodsData[ns[k]]))]
    IN  SortByDistanceKm(AddStandalone(neighborhoods, 1, latitude, longitude, maxDistance))

PlacesNearbyEnhanced(q) ==
    /\ res = NoResponse
    /\ LET p == PlacesParams("places_nearby_enhanced", q)
       IN  res' = IF ~p.ok THEN p.bad
                  ELSE PlacesResponse("places_nearby_enhanced", q, p,
                                      PlacesEnhancedResults(p.latitude, p.longitude,
                                                            p.maxDistance))
    /\ UNCHANGED <<jsonData, neighborhoodsData, pincodeData>>

-----------------------------------------------------------------------------
(* The client takes the response. *)

Receive ==
    /\ res # NoResponse
    /\ res' = NoResponse
    /\ UNCHANGED <<jsonData, neighborhoodsData, pincodeData>>

-----------------------------------------------------------------------------
(* The service with its gazetteer and postal directory loaded: the geo     *)
(* endpoints.                                                              *)

InitPlaces ==
    /\ jsonData = <<>>
    /\ neighborhoodsData \in SeqsUpTo(NeighborhoodPool, MaxNeighborhoods)
    /\ pincodeData \in SeqsUpTo(PostalPool, MaxPostal)
    /\ res = NoResponse

NextPlaces ==
    \/ \E q \in GeoQueries : NeighborhoodsNearby(q)
    \/ \E q \in GeoQueries : PlacesNearby(q)
    \/ \E q \in GeoQueries : PlacesNearbyEnhanced(q)
    \/ Receive

SpecPlaces == InitPlaces /\ [][NextPlaces]_vars

-----------------------------------------------------------------------------
(* Text normalizer and language-aware text extraction *)

UpperCase ==
    <<"A", "B", "C", "D", "E", "F", "G", "H", "I", "J", "K", "L", "M",
      "N", "O", "P", "Q", "R", "S", "T", "U", "V", "W", "X", "Y", "Z">>
LowerCase ==
    <<"a", "b", "c", "d", "e", "f", "g", "h", "i", "j", "k", "l", "m",
      "n", "o", "p", "q", "r", "s", "t", "u", "v", "w", "x", "y", "z">>
IsUpper(c) == \E i \in 1..26 : UpperCase[i] = c
IsLower(c) == \E i \in 1..26 : LowerCase[i] = c
toLowerCase(c) == IF IsUpper(c) THEN LowerCase[CHOOSE i \in 1..26 : UpperCase[i] = c] ELSE c

\* A variant of normalizeText that removes no character: text.toLowerCase()
lowerCaseOnly(text) == [i \in 1..Len(text) |-> toLowerCase(text[i])]

\* text.replace(/[^a-zA-Z0-9 ]/g, "").toLowerCase()
normalizeText(text) ==
    LET kept == SelectSeq(text, LAMBDA c : IsUpper(c) \/ IsLower(c) \/ IsDigit(c) \/ c = " ")
    IN  [i \in 1..Len(kept) |-> toLowerCase(kept[i])]

\* String.prototype.includes
includes(text, needle) ==
    \E i \in 1..(Len(text) - Len(needle) + 1) :
        SubSeq(text, i, i + Len(needle) - 1) = needle

\* String.prototype.split(sep) for a separator of one character.
RECURSIVE split(_, _)
split(text, sep) ==
    IF \A i \in 1..Len(text) : text[i] # sep THEN <<text>>
    ELSE LET at == CHOOSE i \in 1..Len(text) :
                       text[i] = sep /\ \A j \in 1..(i - 1) : text[j] # sep
         IN  <<SubSeq(text, 1, at - 1)>> \o split(SubSeq(text, at + 1, Len(text)), sep)

\* Array.prototype.join(sep)
RECURSIVE join(_, _)
join(texts, sep) ==
    IF texts = <<>> THEN <<>>
    ELSE IF Len(texts) = 1 THEN texts[1]
    ELSE texts[1] \o <<sep>> \o join(Tail(texts), sep)

\* langMapping[lang]: undefined for a code that is not in the table.
langMapping(lang) ==
    CASE lang = <<"e", "n">> -> Some(0)
      [] lang = <<"t", "a">> -> Some(1)
      [] lang = <<"h", "i">> -> Some(2)
      [] lang = <<"t", "e">> -> Some(3)
      [] lang = <<"k", "n">> -> Some(4)
      [] lang = <<"m", "l">> -> Some(5)
      [] OTHER -> None

NoMatchingText ==
    <<"(", "N", "o", " ", "m", "a", "t", "c", "h", "i", "n", "g", " ",
      "t", "e", "x", "t", " ", "f", "o", "u", "n", "d", ")">>

\* A variant of TextAt that takes the slots to start at 1.
TextAtOneBased(allTexts, lang) ==
    LET slot == langMapping(lang)
    IN  IF IsSome(slot) /\ 1 <= Get(slot) /\ Get(slot) <= Len(allTexts)
        THEN allTexts[Get(slot)]
        ELSE <<>>

\* allTexts[langMapping[lang]] || ""
TextAt(allTexts, lang) ==
    LET slot == langMapping(lang)
    IN  IF IsSome(slot) /\ Get(slot) + 1 <= Len(allTexts) THEN allTexts[Get(slot) + 1]
        ELSE <<>>

\* The multiline_text the language filter gives an item.
ExtractLanguages(multiline_text, langArray) ==
    LET allTexts == split(multiline_text, "\n")
        filteredTexts == SelectSeq([k \in 1..Len(langArray) |-> TextAt(allTexts, langArray[k])],
                                   LAMBDA text : text # <<>>)
    IN  IF Len(filteredTexts) > 0 THEN join(filteredTexts, "\n") ELSE NoMatchingText

\* Number.prototype.toString of an integer.
RECURSIVE NatToString(_)
NatToString(n) ==
    IF n < 10 THEN <<DigitChar(n)>> ELSE Append(NatToString(n \div 10), DigitChar(n % 10))
toString(n) == IF n < 0 THEN <<"-">> \o NatToString(-n) ELSE NatToString(n)

\* Math.floor(a / b) for b # 0, a variant of ceilDiv.
floorDiv(a, b) == IF b > 0 THEN a \div b ELSE (-a) \div (-b)

\* Math.ceil(a / b) for b # 0.
ceilDiv(a, b) == IF b > 0 THEN -((-a) \div b) ELSE -(a \div (-b))

\* A variant of slice that takes the element at end too.
sliceThroughEnd(s, start, end) ==
    LET from == IF start < 0 THEN Max(Len(s) + start, 0) ELSE Min(start, Len(s))
        to == IF end < 0 THEN Max(Len(s) + end, 0) ELSE Min(end, Len(s))
    IN  SubSeq(s, from + 1, Min(to + 1, Len(s)))

\* Array.prototype.slice(start, end): a negative index counts from the end.
slice(s, start, end) ==
    LET from == IF start < 0 THEN Max(Len(s) + start, 0) ELSE Min(start, Len(s))
        to == IF end < 0 THEN Max(Len(s) + end, 0) ELSE Min(end, Len(s))
    IN  SubSeq(s, from + 1, to)

-----------------------------------------------------------------------------
(* The item collection.  An item is a function from its keys to their      *)
(* values.  A character outside ASCII is written by its code point.        *)

Item(id, text, languages) ==
    ("category-id" :> id) @@ ("multiline_text" :> text) @@ ("languages" :> languages)

\* An item whose record has no multiline_text key.
ItemWithoutText(id, languages) == ("category-id" :> id) @@ ("languages" :> languages)

en == <<"e", "n">>
ta == <<"t", "a">>
hi == <<"h", "i">>

ItemPool ==
    { Item("A", <<"H", "i", "\n", "U+0BB5", "\n", "U+0928">>, <<en, ta, hi>>),
      Item("B", <<"Y", "o">>, <<en, ta>>),
      Item("A", <<"a", "b", "\n", "\n", "H", "I">>, <<en, ta, hi>>),
      Item("2", <<"\n", "x">>, <<en>>) @@ ("foo" :> "old"),
      Item("1", NoMatchingText, <<en>>) }

\* The query strings of GET /api/v1/items.
SearchTexts == {None, Some(<<"h", "i">>), Some(<<"B">>)}
SubCategoryIds == {None, Some("A")}
LanguageParams ==
    {None, Some(ta), Some(<<"f", "r">>), Some(<<"h", "i", ",", "e", "n">>),
     Some(<<"f", "r", ",", "e", "n">>)}
PageParams == {None, Some(<<"0">>), Some(<<"1">>), Some(<<"2">>), Some(<<"3">>)}
PerPageParams == {None, Some(<<"0">>), Some(<<"1">>), Some(<<"2">>)}
ItemQueries ==
    [searchtext : SearchTexts, subCategoryId : SubCategoryIds, languages : LanguageParams,
     current_page : PageParams, items_per_page : PerPageParams]

-----------------------------------------------------------------------------
(* GET /api/v1/items *)

\* parseInt(x) || fallback, of a parameter whose default, when it is absent,
\* is the number fallback: NaN and 0 are falsy.
parseIntOr(param, fallback) ==
    IF ~IsSome(param) THEN fallback
    ELSE LET n == parseInt(Get(param))
         IN  IF isNaN(n) \/ n.v = 0 THEN fallback ELSE n.v

PageOf(q) == Max(1, parseIntOr(q.current_page, 1))
DefaultLimit == 10
LimitOf(q) == parseIntOr(q.items_per_page, DefaultLimit)

\* searchtext = "" when the parameter is absent.
SearchTextOf(q) == IF IsSome(q.searchtext) THEN Get(q.searchtext) ELSE <<>>

\* The positions in jsonData of the items that pass the search filter and
\* the sub-category filter, in collection order.
CategoryFiltered(q) ==
    LET afterSearch ==
            IF TruthyStr(q.searchtext)
            THEN SelectSeq(Indices(jsonData),
                           LAMBDA i : includes(normalizeText(jsonData[i]["multiline_text"]),
                                               normalizeText(Get(q.searchtext))))
            ELSE Indices(jsonData)
    IN  IF TruthyAtom(q.subCategoryId)
        THEN SelectSeq(afterSearch,
                       LAMBDA i : jsonData[i]["category-id"] = Get(q.subCategoryId))
        ELSE afterSearch

\* A variant of FilteredItems whose language filter drops no item.
FilteredItemsKeepAll(q) == CategoryFiltered(q)

\* The positions in jsonData of the items that pass the three filters, in
\* collection order: the language filter keeps the items that support one
\* of the codes of the languages parameter.
FilteredItems(q) ==
    IF TruthyStr(q.languages)
    THEN LET langArray == split(Get(q.languages), ",")
         IN  SelectSeq(CategoryFiltered(q),
                       LAMBDA i : \E k \in 1..Len(jsonData[i]["languages"]) :
                                      \E l \in 1..Len(langArray) :
                                          jsonData[i]["languages"][k] = langArray[l])
    ELSE CategoryFiltered(q)

\* The item as the response shows it: with the text of the requested
\* languages when the languages parameter is given.
ShownItem(q, i) ==
    IF TruthyStr(q.languages)
    THEN [jsonData[i] EXCEPT !["multiline_text"] =
              ExtractLanguages(jsonData[i]["multiline_text"], split(Get(q.languages), ","))]
    ELSE jsonData[i]

\* `${x}` of a parameter: "undefined" when it is absent.
Undefined == <<"u", "n", "d", "e", "f", "i", "n", "e", "d">>
Interpolate(param) == IF IsSome(param) THEN Get(param) ELSE Undefined
InterpolateAtom(param) == IF IsSome(param) THEN Get(param) ELSE "undefined"

\* next_page_api, the link
\*   /api/v1/items?searchtext=..&sub-category-id=..&languages=..&current_page=..&items_per_page=..
\* as the values of its five parameters.
NextPageApi(q, page, limit) ==
    [searchtext |-> SearchTextOf(q),
     subCategoryId |-> InterpolateAtom(q.subCategoryId),
     languages |-> Interpolate(q.languages),
     current_page |-> toString(page + 1),
     items_per_page |-> toString(limit)]

\* req.query of a request for the link: every parameter of the link is
\* present, with the text the link gives it (the values of the model need
\* no URL escaping).
QueryOfLink(link) ==
    [searchtext |-> Some(link.searchtext),
     subCategoryId |-> Some(link.subCategoryId),
     languages |-> Some(link.languages),
     current_page |-> Some(link.current_page),
     items_per_page |-> Some(link.items_per_page)]

\* item.multiline_text is undefined.
HasText(item) == "multiline_text" \in DOMAIN item

\* The handler throws a TypeError: normalizeText(undefined) calls replace
\* of undefined in the search filter, which visits every item of the store,
\* and the language filter calls split of undefined for the items it keeps.
ItemsTypeError(q) ==
    IF TruthyStr(q.searchtext)
    THEN \E i \in 1..Len(jsonData) : ~HasText(jsonData[i])
    ELSE /\ TruthyStr(q.languages)
         /\ \E k \in 1..Len(FilteredItems(q)) : ~HasText(jsonData[FilteredItems(q)[k]])

\* The answer of Express to an exception the handler lets escape: the
\* default error handler answers 500 with the error's stack.
Uncaught(kind, error) == [kind |-> kind, status |-> 500, error |-> error]

\* The response to the query q.  query, src (the positions in jsonData of
\* the items returned) and follows (the query whose next_page_api this
\* request was made from) are not part of the response.
ItemsResponse(q, follows) ==
    LET page == PageOf(q)
        limit == LimitOf(q)
        startIndex == (page - 1) * limit
        filteredData == FilteredItems(q)
        total_count == Len(filteredData)
        total_pages == ceilDiv(total_count, limit)
        paginated == slice(filteredData, startIndex, startIndex + limit)
    IN  IF ItemsTypeError(q)
        THEN Uncaught("items", "TypeError") @@ [query |-> q, follows |-> follows]
        ELSE
        [kind |-> "items", status |-> 200, query |-> q, follows |-> follows,
         total_count |-> toString(total_count),
         keyword |-> SearchTextOf(q),
         items_per_page |-> toString(limit),
         total_pages |-> toString(total_pages),
         current_page |-> toString(page),
         next_page |-> IF page < total_pages THEN toString(page + 1) ELSE <<>>,
         next_page_api |-> IF page < total_pages THEN Some(NextPageApi(q, page, limit))
                           ELSE None,
         items |-> [k \in 1..Len(paginated) |-> ShownItem(q, paginated[k])],
         src |-> paginated]

GetItems(q) ==
    /\ res = NoResponse
    /\ res' = ItemsResponse(q, None)
    /\ UNCHANGED <<jsonData, neighborhoodsData, pincodeData>>

\* The client requests the next_page_api of the response it holds.
FollowNextPage ==
    /\ res.kind = "items"
    /\ res.status = 200
    /\ IsSome(res.next_page_api)
    /\ res' = ItemsResponse(QueryOfLink(Get(res.next_page_api)), Some(res.query))
    /\ UNCHANGED <<jsonData, neighborhoodsData, pincodeData>>

-----------------------------------------------------------------------------
(* The service with its item collection loaded: the paginated item query. *)

InitItems ==
    /\ jsonData \in SeqsUpTo(ItemPool, MaxItems)
    /\ neighborhoodsData = <<>>
    /\ pincodeData = <<>>
    /\ res = NoResponse

NextItems ==
    \/ \E q \in ItemQueries : GetItems(q)
    \/ FollowNextPage
    \/ Receive

SpecItems == InitItems /\ [][NextItems]_vars

-----------------------------------------------------------------------------
(* GET /api/v1/search/:searchtext (earlier variant of the item service) *)

\* total_results is the number 0 when the store is empty and a string
\* otherwise.
SearchResponse(searchtext) ==
    LET normalizedSearchText == normalizeText(searchtext)
        filteredData ==
            SelectSeq(Indices(jsonData),
                      LAMBDA i : includes(normalizeText(jsonData[i]["multiline_text"]),
                                          normalizedSearchText))
    IN  IF Len(jsonData) = 0
        THEN [kind |-> "search", status |-> 200, search_text |-> searchtext,
              message |-> "No data loaded",
              total_results |-> [type |-> "number", digits |-> <<"0">>],
              results |-> <<>>, src |-> <<>>]
        ELSE IF \E i \in 1..Len(jsonData) : ~HasText(jsonData[i])
        THEN Uncaught("search", "TypeError") @@ [search_text |-> searchtext]
        ELSE [kind |-> "search", status |-> 200, search_text |-> searchtext,
              total_results |-> [type |-> "string",
                                 digits |-> toString(Len(filteredData))],
              results |-> [k \in 1..Len(filteredData) |-> jsonData[filteredData[k]]],
              src |-> filteredData]

SearchItems(searchtext) ==
    /\ res = NoResponse
    /\ res' = SearchResponse(searchtext)
    /\ UNCHANGED <<jsonData, neighborhoodsData, pincodeData>>

-----------------------------------------------------------------------------
(* The item query with any text for its parameters, over a store in which  *)
(* an item may lack its text.                                             *)

SearchPool ==
    { Item("A", <<"H", "i", "\n", "U+0BB5", "\n", "U+0928">>, <<en, ta, hi>>),
      Item("B", <<"Y", "o">>, <<en, ta>>),
      ItemWithoutText("A", <<ta>>) }

\* The searchtext of a request: a path parameter is never empty.
SearchWords == {<<"h", "i">>, <<"B">>, <<"U+0BB5">>, <<"U+0BB5", "!">>}

SearchQueries ==
    [searchtext : {None} \cup {Some(w) : w \in SearchWords},
     subCategoryId : {None, Some("B")},
     languages : {None, Some(ta)},
     current_page : {None, Some(<<"2">>), Some(<<"-", "1">>), Some(<<"x">>)},
     items_per_page : {None, Some(<<"1">>), Some(<<"0">>), Some(<<"-", "1">>), Some(<<"x">>)}]

InitSearch ==
    /\ jsonData \in SeqsUpTo(SearchPool, MaxItems)
    /\ neighborhoodsData = <<>>
    /\ pincodeData = <<>>
    /\ res = NoResponse

NextSearch ==
    \/ \E q \in SearchQueries : GetItems(q)
    \/ \E searchtext \in SearchWords : SearchItems(searchtext)
    \/ Receive

SpecSearch == InitSearch /\ [][NextSearch]_vars

-----------------------------------------------------------------------------
(* GET, PUT and DELETE /api/v1/item/:id *)

ItemIds == {"A", "B", "Z"}
PutBodies ==
    { ("foo" :> "bar"),
      ("category-id" :> "B") @@ ("multiline_text" :> <<"Z">>) }

\* A variant of findIndex that gives the last position when no item has
\* the id (an index of -1 counts from the end in splice and slice).
findIndexOrLast(id) ==
    IF \E i \in 1..Len(jsonData) : jsonData[i]["category-id"] = id
    THEN CHOOSE i \in 1..Len(jsonData) :
             /\ jsonData[i]["category-id"] = id
             /\ \A j \in 1..(i - 1) : jsonData[j]["category-id"] # id
    ELSE Len(jsonData)

\* A variant of findIndex that gives the last item with the id:
\* jsonData.findLastIndex(...)
findLastIndex(id) ==
    IF \E i \in 1..Len(jsonData) : jsonData[i]["category-id"] = id
    THEN CHOOSE i \in 1..Len(jsonData) :
             /\ jsonData[i]["category-id"] = id
             /\ \A j \in (i + 1)..Len(jsonData) : jsonData[j]["category-id"] # id
    ELSE 0

\* jsonData.findIndex(item => item["category-id"] === id): 0 for -1.
findIndex(id) ==
    IF \E i \in 1..Len(jsonData) : jsonData[i]["category-id"] = id
    THEN CHOOSE i \in 1..Len(jsonData) :
             /\ jsonData[i]["category-id"] = id
             /\ \A j \in 1..(i - 1) : jsonData[j]["category-id"] # id
    ELSE 0

NotFound(kind, id) ==
    [kind |-> kind, status |-> 404, id |-> id, message |-> "Item not found"]

\* The answer of the handler of GET /api/v1/item/:id; kind names the
\* request and is not part of the response.
ItemByIdResponse(kind, id) ==
    IF findIndex(id) = 0 THEN NotFound(kind, id)
    ELSE [kind |-> kind, status |-> 200, id |-> id, item |-> jsonData[findIndex(id)]]

GetItem(id) ==
    /\ res = NoResponse
    /\ res' = ItemByIdResponse("item_get", id)
    /\ UNCHANGED <<jsonData, neighborhoodsData, pincodeData>>

\* Routing.  A path is the sequence of its segments after /api/v1; a route
\* is a sequence of literal segments and parameters (:name).  Express gives
\* a request to the first route, in registration order, that matches it.
Lit(s) == [param |-> FALSE, name |-> s]
Param(s) == [param |-> TRUE, name |-> s]
MatchesRoute(route, path) ==
    /\ Len(route) = Len(path)
    /\ \A i \in 1..Len(route) : route[i].param \/ route[i].name = path[i]
FirstRoute(routes, path) ==
    IF \E r \in 1..Len(routes) : MatchesRoute(routes[r], path)
    THEN CHOOSE r \in 1..Len(routes) :
             /\ MatchesRoute(routes[r], path)
             /\ \A k \in 1..(r - 1) : ~MatchesRoute(routes[k], path)
    ELSE 0

\* The GET routes of the item service, in registration order.
ItemGetRoutes ==
    << <<Lit("items")>>,
       <<Lit("data"), Lit("full")>>,
       <<Lit("item"), Param("id")>>,
       <<Lit("languages")>>,
       <<Lit("categories")>>,
       <<Lit("item"), Lit("random")>>,
       <<Lit("items"), Lit("sorted")>> >>

\* The answers of the handler of GET /api/v1/item/random:
\* jsonData[Math.floor(Math.random() * jsonData.length)] is any item.
ItemRandomResponses ==
    IF Len(jsonData) = 0
    THEN {[kind |-> "item_random", status |-> 404, message |-> "No data available"]}
    ELSE {[kind |-> "item_random", status |-> 200, item |-> jsonData[i]] :
             i \in 1..Len(jsonData)}

\* GET /api/v1/item/random, answered by the first route that matches it.
GetItemRandom ==
    /\ res = NoResponse
    /\ LET path == <<"item", "random">>
           route == ItemGetRoutes[FirstRoute(ItemGetRoutes, path)]
       IN  IF route = <<Lit("item"), Param("id")>>
           THEN res' = ItemByIdResponse("item_random", path[2])
           ELSE res' \in ItemRandomResponses
    /\ UNCHANGED <<jsonData, neighborhoodsData, pincodeData>>

\* A variant of splice1 that removes the rest of the array too:
\* jsonData.splice(index)
spliceToEnd(s, index) == SubSeq(s, 1, index - 1)

\* jsonData.splice(index, 1)
splice1(s, index) == SubSeq(s, 1, index - 1) \o SubSeq(s, index + 1, Len(s))

\* The handler of DELETE /api/v1/item/:id, which runs from its lookup to
\* its answer without yielding to another request: the store it leaves
\* and its response.
DeleteStore(id) ==
    IF findIndex(id) = 0 THEN jsonData ELSE splice1(jsonData, findIndex(id))

DeleteResponse(id) ==
    IF findIndex(id) = 0 THEN NotFound("item_delete", id)
    ELSE [kind |-> "item_delete", status |-> 200, id |-> id,
          message |-> "Item deleted successfully",
          total_count |-> toString(Len(DeleteStore(id)))]

DeleteItem(id) ==
    /\ res = NoResponse
    /\ jsonData' = DeleteStore(id)
    /\ res' = DeleteResponse(id)
    /\ UNCHANGED <<neighborhoodsData, pincodeData>>

\* A variant of Merge that spreads the stored item last:
\* { ...updatedData, ...item }
MergeStoredLast(item, updatedData) ==
    [k \in DOMAIN item \cup DOMAIN updatedData |->
        IF k \in DOMAIN item THEN item[k] ELSE updatedData[k]]

\* { ...item, ...updatedData }
Merge(item, updatedData) ==
    [k \in DOMAIN item \cup DOMAIN updatedData |->
        IF k \in DOMAIN updatedData THEN updatedData[k] ELSE item[k]]

\* id and body (the request), index (the position of the item in jsonData)
\* and before (the item as it was stored) are not part of the response.
PutStore(id, updatedData) ==
    IF findIndex(id) = 0 THEN jsonData
    ELSE [jsonData EXCEPT ![findIndex(id)] = Merge(jsonData[findIndex(id)], updatedData)]

PutResponse(id, updatedData) ==
    LET index == findIndex(id)
    IN  IF index = 0 THEN NotFound("item_put", id)
        ELSE [kind |-> "item_put", status |-> 200, id |-> id,
              body |-> updatedData, index |-> index,
              before |-> jsonData[index],
              message |-> "Item updated successfully",
              updated_item |-> PutStore(id, updatedData)[index]]

PutItem(id, updatedData) ==
    /\ res = NoResponse
    /\ jsonData' = PutStore(id, updatedData)
    /\ res' = PutResponse(id, updatedData)
    /\ UNCHANGED <<neighborhoodsData, pincodeData>>

-----------------------------------------------------------------------------
(* The GET endpoints over the whole item collection *)

\* Number(x) of a category-id of the model: NaN for an id that is not the
\* text of a number.
Number(id) ==
    CASE id = "1" -> Num(1)
      [] id = "2" -> Num(2)
      [] OTHER -> NaN

\* The comparator (a, b) => a["category-id"] - b["category-id"], as sort
\* takes it: a result of NaN counts as 0.
CompareCategoryId(a, b) ==
    LET x == Number(a["category-id"])
        y == Number(b["category-id"])
    IN  IF isNaN(x) \/ isNaN(y) THEN 0 ELSE x.v - y.v

\* The comparator is consistent on the items of s (ECMAScript,
\* Array.prototype.sort): its "equal" and its "less" are transitive.
ConsistentComparator(s) ==
    \A i, j, k \in 1..Len(s) :
        /\ CompareCategoryId(s[i], s[j]) = 0 /\ CompareCategoryId(s[j], s[k]) = 0
               => CompareCategoryId(s[i], s[k]) = 0
        /\ CompareCategoryId(s[i], s[j]) < 0 /\ CompareCategoryId(s[j], s[k]) < 0
               => CompareCategoryId(s[i], s[k]) < 0

Reorderings(s) ==
    {[i \in 1..Len(s) |-> s[f[i]]] :
        f \in {g \in [1..Len(s) -> 1..Len(s)] : \A i, j \in 1..Len(s) : i # j => g[i] # g[j]}}

\* The orders s.sort(comparator) may give: the stable sort when the
\* comparator is consistent (all ids numbers, or all pairs equal), an
\* implementation-defined order otherwise.
SortedByCategoryId(s) ==
    IF ~ConsistentComparator(s) THEN Reorderings(s)
    ELSE IF \E i \in 1..Len(s) : isNaN(Number(s[i]["category-id"])) THEN {s}
    ELSE LET sorted == SortByKey([i \in 1..Len(s) |->
                                      <<Number(s[i]["category-id"]).v, s[i]>>])
         IN  {[i \in 1..Len(s) |-> sorted[i][2]]}

\* GET /api/v1/items/sorted of server.js: jsonData.slice().sort(...).
\* inPlace names the variant and is not part of the response.
GetItemsSorted ==
    /\ res = NoResponse
    /\ \E sortedData \in SortedByCategoryId(jsonData) :
           res' = [kind |-> "items_sorted", status |-> 200, inPlace |-> FALSE,
                   total_count |-> toString(Len(sortedData)), results |-> sortedData]
    /\ UNCHANGED <<jsonData, neighborhoodsData, pincodeData>>

\* GET /api/v1/items/sorted of the earlier variant: jsonData.sort(...)
\* sorts the collection itself.
GetItemsSortedInPlace ==
    /\ res = NoResponse
    /\ \E sortedData \in SortedByCategoryId(jsonData) :
           /\ jsonData' = sortedData
           /\ res' = [kind |-> "items_sorted", status |-> 200, inPlace |-> TRUE,
                      total_count |-> toString(Len(sortedData)), results |-> sortedData]
    /\ UNCHANGED <<neighborhoodsData, pincodeData>>

\* GET /api/v1/data/full
GetDataFull ==
    /\ res = NoResponse
    /\ res' = [kind |-> "data_full", status |-> 200,
               total_count |-> toString(Len(jsonData)), keyword |-> <<>>,
               items_per_page |-> toString(Len(jsonData)), total_pages |-> <<"1">>,
               current_page |-> <<"1">>, next_page |-> <<>>, next_page_api |-> None,
               items |-> jsonData]
    /\ UNCHANGED <<jsonData, neighborhoodsData, pincodeData>>

\* Array.from(new Set(values)): the values without repetition, in the order
\* of their first occurrence.
RECURSIVE Distinct(_)
Distinct(values) ==
    IF values = <<>> THEN <<>>
    ELSE LET front == Distinct(Front(values))
         IN  IF \E i \in 1..Len(front) : front[i] = Last(values) THEN front
             ELSE Append(front, Last(values))

\* items.flatMap(item => item.languages)
RECURSIVE AllLanguages(_)
AllLanguages(items) ==
    IF items = <<>> THEN <<>>
    ELSE AllLanguages(Front(items)) \o Last(items)["languages"]

\* GET /api/v1/languages
GetLanguages ==
    /\ res = NoResponse
    /\ res' = [kind |-> "languages", status |-> 200,
               languages |-> Distinct(AllLanguages(jsonData))]
    /\ UNCHANGED <<jsonData, neighborhoodsData, pincodeData>>

\* GET /api/v1/categories
GetCategories ==
    /\ res = NoResponse
    /\ res' = [kind |-> "categories", status |-> 200,
               categories |-> Distinct([i \in 1..Len(jsonData) |->
                                           jsonData[i]["category-id"]])]
    /\ UNCHANGED <<jsonData, neighborhoodsData, pincodeData>>

-----------------------------------------------------------------------------
(* The service with its item collection loaded: the single-item endpoints. *)

NextStore ==
    \/ \E id \in ItemIds : GetItem(id)
    \/ GetItemRandom
    \/ GetItemsSorted
    \/ GetItemsSortedInPlace
    \/ GetDataFull
    \/ GetLanguages
    \/ GetCategories
    \/ \E id \in ItemIds : DeleteItem(id)
    \/ \E id \in ItemIds, updatedData \in PutBodies : PutItem(id, updatedData)
    \/ Receive

SpecStore == InitItems /\ [][NextStore]_vars

-----------------------------------------------------------------------------
(* The postal directory endpoints: /api/v1/pincode/... *)

\* x.toString() of the strings of the model that the handlers search in.
String(x) ==
    CASE x = "500016" -> <<"5", "0", "0", "0", "1", "6">>
      [] x = "500003" -> <<"5", "0", "0", "0", "0", "3">>
      [] x = "500045" -> <<"5", "0", "0", "0", "4", "5">>
      [] x = "Ameerpet S.O" -> <<"A", "m", "e", "e", "r", "p", "e", "t", " ", "S", ".", "O">>
      [] x = "S.R.Nagar S.O" -> <<"S", ".", "R", ".", "N", "a", "g", "a", "r", " ", "S", ".", "O">>
      [] x = "Begumpet S.O" -> <<"B", "e", "g", "u", "m", "p", "e", "t", " ", "S", ".", "O">>
      [] x = "Yousufguda S.O" ->
             <<"Y", "o", "u", "s", "u", "f", "g", "u", "d", "a", " ", "S", ".", "O">>
      [] x = "500082" -> <<"5", "0", "0", "0", "8", "2">>
      [] x = "Punjagutta S.O" ->
             <<"P", "u", "n", "j", "a", "g", "u", "t", "t", "a", " ", "S", ".", "O">>

\* A variant of toLowerCaseStr that keeps the case.
KeepCase(text) == text

\* String.prototype.toLowerCase
toLowerCaseStr(text) == [i \in 1..Len(text) |-> toLowerCase(text[i])]

\* The UTF-16 code unit of a character of the model.
CodeUnit(c) ==
    IF IsUpper(c) THEN 64 + (CHOOSE i \in 1..26 : UpperCase[i] = c)
    ELSE IF IsLower(c) THEN 96 + (CHOOSE i \in 1..26 : LowerCase[i] = c)
    ELSE IF IsDigit(c) THEN 48 + DigitVal(c)
    ELSE IF c = "." THEN 46 ELSE 32

\* a < b in the order of the default Array.prototype.sort (by code units).
RECURSIVE StrLess(_, _)
StrLess(a, b) ==
    IF b = <<>> THEN FALSE
    ELSE IF a = <<>> THEN TRUE
    ELSE IF CodeUnit(Head(a)) # CodeUnit(Head(b)) THEN CodeUnit(Head(a)) < CodeUnit(Head(b))
    ELSE StrLess(Tail(a), Tail(b))

\* [...new Set(strings)].sort()
RECURSIVE SortStrings(_)
SortStrings(S) ==
    IF S = {} THEN <<>>
    ELSE LET least == CHOOSE x \in S : \A y \in S \ {x} : StrLess(x, y)
         IN  <<least>> \o SortStrings(S \ {least})

\* The query strings of GET /api/v1/pincode/search.
PincodeFilters == {None, Some(<<"1", "6">>), Some(<<"5", "0", "0", "0">>)}
StateFilters == {None, Some(<<"t", "e", "l">>), Some(<<"A", "N">>)}
DistrictFilters == {None, Some(<<"h", "y", "d">>)}
OfficeFilters == {None, Some(<<"P", "E", "T">>)}
PincodeQueries ==
    [pincode : PincodeFilters, state : StateFilters, district : DistrictFilters,
     office : OfficeFilters]
NoQuery == [pincode |-> None, state |-> None, district |-> None, office |-> None]

\* The positions of the records that pass the filters the query supplies,
\* in directory order.
PincodeSearchResults(q) ==
    LET byPincode ==
            IF TruthyStr(q.pincode)
            THEN SelectSeq(Indices(pincodeData),
                           LAMBDA j : /\ pincodeData[j].Pincode # ""
                                      /\ includes(String(pincodeData[j].Pincode),
                                                  Get(q.pincode)))
            ELSE Indices(pincodeData)
        byState ==
            IF TruthyStr(q.state)
            THEN SelectSeq(byPincode,
                           LAMBDA j : /\ TruthyStr(pincodeData[j].StateName)
                                      /\ includes(toLowerCaseStr(Get(pincodeData[j].StateName)),
                                                  toLowerCaseStr(Get(q.state))))
            ELSE byPincode
        byDistrict ==
            IF TruthyStr(q.district)
            THEN SelectSeq(byState,
                           LAMBDA j : /\ TruthyStr(pincodeData[j].District)
                                      /\ includes(toLowerCaseStr(Get(pincodeData[j].District)),
                                                  toLowerCaseStr(Get(q.district))))
            ELSE byState
    IN  IF TruthyStr(q.office)
        THEN SelectSeq(byDistrict,
                       LAMBDA j : /\ pincodeData[j].OfficeName # ""
                                  /\ includes(toLowerCaseStr(String(pincodeData[j].OfficeName)),
                                              toLowerCaseStr(Get(q.office))))
        ELSE byDistrict

\* In the responses below, kind (the request), route (the position of the
\* route that answered), query and src (the positions in pincodeData of the
\* records returned) are not part of the response.
PincodeSearchResponse(kind, route, q) ==
    LET filteredData == PincodeSearchResults(q)
    IN  [kind |-> kind, route |-> route, status |-> 200, query |-> q,
         count |-> Len(filteredData),
         filters |-> q,
         results |-> [k \in 1..Len(filteredData) |-> pincodeData[filteredData[k]]],
         src |-> filteredData]

\* GET /api/v1/pincode/:pincode
PincodeByCodeResponse(kind, route, pincode) ==
    LET pincodeDetails == SelectSeq(Indices(pincodeData),
                                    LAMBDA j : /\ pincodeData[j].Pincode # ""
                                               /\ pincodeData[j].Pincode = pincode)
    IN  IF Len(pincodeDetails) = 0
        THEN [kind |-> kind, route |-> route, status |-> 404,
              message |-> "Pincode not found", pincode |-> pincode]
        ELSE [kind |-> kind, route |-> route, status |-> 200, pincode |-> pincode,
              count |-> Len(pincodeDetails),
              details |-> [k \in 1..Len(pincodeDetails) |-> pincodeData[pincodeDetails[k]]],
              src |-> pincodeDetails]

\* The records with coordinates whose rounded distance to the query point
\* is within maxDistance, nearest first.
PincodeNearbyResults(latitude, longitude, maxDistance) ==
    LET withCoords == SelectSeq(Indices(pincodeData),
                                LAMBDA j : HasCoordinates(pincodeData[j]))
        mapped == [k \in 1..Len(withCoords) |->
                      [record |-> pincodeData[withCoords[k]],
                       idx |-> withCoords[k],
                       distance_km |->
                           toFixed2(haversineDistance(
                               latitude, longitude,
                               Get(pincodeData[withCoords[k]].Latitude),
                               Get(pincodeData[withCoords[k]].Longitude)))]]
    IN  SortByDistanceKm(SelectSeq(mapped, LAMBDA e : e.distance_km <= maxDistance))

\* GET /api/v1/pincode/nearby
PincodeNearbyResponse(kind, route, q) ==
    LET p == PlacesParams(kind, q)
    IN  IF ~p.ok THEN p.bad @@ [route |-> route]
        ELSE LET nearbyPincodes == PincodeNearbyResults(p.latitude, p.longitude,
                                                        p.maxDistance)
             IN  [kind |-> kind, route |-> route, status |-> 200, query |-> q,
                  count |-> Len(nearbyPincodes),
                  input |-> [lat |-> p.latitude, lng |-> p.longitude,
                             range |-> p.maxDistance],
                  pincodes |-> nearbyPincodes]

\* The distinct non-empty state names of the directory, sorted.
PincodeStates ==
    SortStrings({Get(pincodeData[j].StateName) :
                    j \in {i \in 1..Len(pincodeData) : TruthyStr(pincodeData[i].StateName)}})

\* GET /api/v1/pincode/states
PincodeStatesResponse(kind, route) ==
    [kind |-> kind, route |-> route, status |-> 200,
     count |-> Len(PincodeStates), states |-> PincodeStates]

\* The GET routes of the postal directory, in registration order.
RoutePincodeSearch == <<Lit("pincode"), Lit("search")>>
RoutePincodeByCode == <<Lit("pincode"), Param("pincode")>>
RoutePincodeNearby == <<Lit("pincode"), Lit("nearby")>>
RoutePincodeStates == <<Lit("pincode"), Lit("states")>>
PincodeGetRoutes ==
    << RoutePincodeSearch,
       RoutePincodeByCode,
       <<Lit("pincode"), Lit("state"), Param("state")>>,
       <<Lit("pincode"), Lit("district"), Param("district")>>,
       RoutePincodeNearby,
       RoutePincodeStates,
       <<Lit("pincode"), Lit("states"), Param("state"), Lit("districts")>> >>

\* The answer to GET /api/v1/<path>?<q>: that of the handler of the first
\* route that matches the path.
PincodeAnswer(kind, path, q) ==
    LET r == FirstRoute(PincodeGetRoutes, path)
        route == PincodeGetRoutes[r]
        answer == CASE route = RoutePincodeSearch -> PincodeSearchResponse(kind, r, q)
                    [] route = RoutePincodeByCode -> PincodeByCodeResponse(kind, r, path[2])
                    [] route = RoutePincodeNearby -> PincodeNearbyResponse(kind, r, q)
                    [] route = RoutePincodeStates -> PincodeStatesResponse(kind, r)
    IN  answer @@ [query |-> q]

PincodeSearch(q) ==
    /\ res = NoResponse
    /\ res' = PincodeAnswer("pincode_search", <<"pincode", "search">>, q)
    /\ UNCHANGED <<jsonData, neighborhoodsData, pincodeData>>

PincodeCodes == {"500016", "500045", "999999"}

GetPincode(pincode) ==
    /\ res = NoResponse
    /\ res' = PincodeAnswer("pincode_by_code", <<"pincode", pincode>>, NoQuery)
    /\ UNCHANGED <<jsonData, neighborhoodsData, pincodeData>>

GetPincodeNearby(q) ==
    /\ res = NoResponse
    /\ res' = PincodeAnswer("pincode_nearby", <<"pincode", "nearby">>, q)
    /\ UNCHANGED <<jsonData, neighborhoodsData, pincodeData>>

GetPincodeStates ==
    /\ res = NoResponse
    /\ res' = PincodeAnswer("pincode_states", <<"pincode", "states">>, NoQuery)
    /\ UNCHANGED <<jsonData, neighborhoodsData, pincodeData>>

InitPincode ==
    /\ jsonData = <<>>
    /\ neighborhoodsData = <<>>
    /\ pincodeData \in SeqsUpTo(PostalPool, MaxPostal)
    /\ res = NoResponse

NextPincode ==
    \/ \E q \in PincodeQueries : PincodeSearch(q)
    \/ \E pincode \in PincodeCodes : GetPincode(pincode)
    \/ \E q \in GeoQueries : GetPincodeNearby(q)
    \/ GetPincodeStates
    \/ Receive

SpecPincode == InitPincode /\ [][NextPincode]_vars

-----------------------------------------------------------------------------
(* Concurrent PUT and DELETE requests.  Each client sends one request; a   *)
(* request in flight has arrived at the server and waits for the event     *)
(* loop, which runs one handler at a time, each from its lookup to its     *)
(* answer (the handlers hold no await and no callback).  res holds the     *)
(* requests and responses in flight, one entry for each client, and        *)
(* initial, the length of the store when the first request arrived.        *)

Clients == {"c1", "c2", "c3"}

Requests ==
    [method : {"DELETE"}, id : ItemIds, body : {<<>>}]
        \cup [method : {"PUT"}, id : ItemIds, body : PutBodies]

ConcurrentPool ==
    { Item("A", <<"H", "i", "\n", "U+0BB5", "\n", "U+0928">>, <<en, ta, hi>>),
      Item("A", <<"a", "b", "\n", "\n", "H", "I">>, <<en, ta, hi>>),
      Item("B", <<"Y", "o">>, <<en, ta>>) }

\* The client sends its request.
Send(c, request) ==
    /\ res.kind = "concurrent"
    /\ res.clients[c].state = "idle"
    /\ res' = [res EXCEPT !.clients[c] = [state |-> "pending", request |-> request]]
    /\ UNCHANGED <<jsonData, neighborhoodsData, pincodeData>>

\* The event loop runs the handler of a request in flight.  among (the
\* clients whose requests were in flight at that moment) is not part of
\* the response.
Handle(c) ==
    /\ res.kind = "concurrent"
    /\ res.clients[c].state = "pending"
    /\ LET request == res.clients[c].request
           among == {d \in Clients \ {c} : res.clients[d].state = "pending"}
       IN  IF request.method = "DELETE"
           THEN /\ jsonData' = DeleteStore(request.id)
                /\ res' = [res EXCEPT !.clients[c] =
                               [state |-> "answered", request |-> request, among |-> among,
                                response |-> DeleteResponse(request.id)]]
           ELSE /\ jsonData' = PutStore(request.id, request.body)
                /\ res' = [res EXCEPT !.clients[c] =
                               [state |-> "answered", request |-> request, among |-> among,
                                response |-> PutResponse(request.id, request.body)]]
    /\ UNCHANGED <<neighborhoodsData, pincodeData>>

InitConcurrent ==
    /\ jsonData \in SeqsUpTo(ConcurrentPool, MaxItems)
    /\ neighborhoodsData = <<>>
    /\ pincodeData = <<>>
    /\ res = [kind |-> "concurrent", initial |-> Len(jsonData),
              clients |-> [c \in Clients |-> [state |-> "idle"]]]

NextConcurrent ==
    \/ \E c \in Clients, request \in Requests : Send(c, request)
    \/ \E c \in Clients : Handle(c)

SpecConcurrent == InitConcurrent /\ [][NextConcurrent]_vars

-----------------------------------------------------------------------------
(* The distance function on its own: haversineDistance applied to two      *)
(* points of a grid of MaxSteps + 1 latitudes and longitudes, 0.04 degree  *)
(* apart.                                                                  *)

Latitudes == {17000 + 40 * k : k \in 0..MaxSteps}
Longitudes == {78000 + 40 * k : k \in 0..MaxSteps}
Points == [lat : Latitudes, lon : Longitudes]

Distance(a, b) ==
    /\ res = NoResponse
    /\ res' = [kind |-> "distance", a |-> a, b |-> b,
               distance |-> haversineDistance(a.lat, a.lon, b.lat, b.lon)]
    /\ UNCHANGED <<jsonData, neighborhoodsData, pincodeData>>

InitDistance ==
    /\ jsonData = <<>>
    /\ neighborhoodsData = <<>>
    /\ pincodeData = <<>>
    /\ res = NoResponse

NextDistance ==
    \/ \E a \in Points, b \in Points : Distance(a, b)
    \/ Receive

SpecDistance == InitDistance /\ [][NextDistance]_vars

-----------------------------------------------------------------------------
(* The whole service. *)

Init ==
    \/ InitItems \/ InitSearch \/ InitConcurrent
    \/ InitPlaces \/ InitPincode \/ InitDistance

Next ==
    \/ NextItems \/ NextSearch \/ NextStore \/ NextConcurrent
    \/ NextPlaces \/ NextPincode \/ NextDistance

Spec == Init /\ [][Next]_vars

-----------------------------------------------------------------------------
(* Properties of the geo endpoints *)

IsOk(kind) == res.kind = kind /\ res.status = 200
IsEnhanced == IsOk("places_nearby_enhanced")
IsMerged == IsOk("places_nearby") \/ IsOk("places_nearby_enhanced")
IsGeo == IsMerged \/ IsOk("neighborhoods_nearby")

EntryIdxs == 1..Len(res.places)
NeighborhoodIdxs == {i \in EntryIdxs : res.places[i].type = "neighborhood"}
PincodeIdxs == {i \in EntryIdxs : res.places[i].type = "pincode"}

\* The neighborhood entry was matched to its postal record by equality of
\* the postal code.
MatchedByEquality(e) ==
    /\ IsSome(e.pincodeInfo)
    /\ TruthyAtom(e.pincode)
    /\ pincodeData[Get(e.pincodeInfo).rec].Pincode = Get(e.pincode)

\* The unrounded distance of a postal record to the query point of res.
PostalDistance(j) ==
    haversineDistance(res.input.lat, res.input.lng,
                      Get(pincodeData[j].Latitude), Get(pincodeData[j].Longitude))

\* C1: in a response of /places/nearby/enhanced, the postal record that a
\* neighborhood entry was matched to by equality of the postal code is not
\* the record of any "pincode" entry.
C1_ExactMatchNotStandalone ==
    IsEnhanced =>
        \A i \in NeighborhoodIdxs : \A k \in PincodeIdxs :
            MatchedByEquality(res.places[i]) =>
                res.places[k].idx # Get(res.places[i].pincodeInfo).rec

\* C1's case: a neighborhood entry is matched by equality to a postal record
\* that has coordinates and lies within the query radius.
C1_Witness ==
    /\ IsEnhanced
    /\ \E i \in NeighborhoodIdxs :
          /\ MatchedByEquality(res.places[i])
          /\ HasCoordinates(pincodeData[Get(res.places[i].pincodeInfo).rec])
          /\ PostalDistance(Get(res.places[i].pincodeInfo).rec) <= res.input.range

\* C2: in a response of /places/nearby/enhanced, no "pincode" entry carries
\* a postal code that a neighborhood entry of the response has attached,
\* be it as its own pincode or in its pincodeInfo (the nearest match).
C2_NoAttachedCodeStandalone ==
    IsEnhanced =>
        \A i \in NeighborhoodIdxs : \A k \in PincodeIdxs :
            /\ TruthyAtom(res.places[i].pincode) =>
                  res.places[k].pincode # res.places[i].pincode
            /\ IsSome(res.places[i].pincodeInfo) =>
                  Get(res.places[k].pincode) # Get(res.places[i].pincodeInfo).pincode

\* The postal code is attached to a neighborhood entry of the response.
Attached(code) ==
    \E i \in NeighborhoodIdxs :
        \/ TruthyAtom(res.places[i].pincode) /\ Get(res.places[i].pincode) = code
        \/ IsSome(res.places[i].pincodeInfo) /\ Get(res.places[i].pincodeInfo).pincode = code

\* C3: in a response of /places/nearby/enhanced, every postal record with
\* coordinates within the query radius whose postal code is attached to no
\* neighborhood entry has a "pincode" entry of its own.
C3_EveryStandaloneEmitted ==
    IsEnhanced =>
        \A j \in 1..Len(pincodeData) :
            ( /\ HasCoordinates(pincodeData[j])
              /\ PostalDistance(j) <= res.input.range
              /\ ~Attached(pincodeData[j].Pincode) )
            => \E k \in PincodeIdxs : res.places[k].idx = j

\* C4: in a response of a geo endpoint, every entry's distance_km is at
\* most the requested range.
C4_ReportedDistanceWithinRange ==
    IsGeo => \A i \in EntryIdxs : res.places[i].distance_km <= res.input.range

\* The entry a was pushed before the entry b: the neighborhoods in
\* collection order, then the postal records in directory order.
PushedBefore(a, b) ==
    \/ a.type = "neighborhood" /\ b.type = "pincode"
    \/ a.type = b.type /\ a.idx < b.idx

\* C5: the merged sequence of /places/nearby and /places/nearby/enhanced is
\* non-decreasing in distance_km, and entries of equal distance_km keep the
\* order they were pushed in.
C5_SortedStable ==
    IsMerged =>
        \A i, k \in EntryIdxs :
            i < k => /\ res.places[i].distance_km <= res.places[k].distance_km
                     /\ res.places[i].distance_km = res.places[k].distance_km
                           => PushedBefore(res.places[i], res.places[k])

\* C5's case: the sort moved a postal entry in front of a neighborhood, and
\* a neighborhood and a postal entry of the response have the same
\* distance_km.
C5_Witness ==
    /\ IsMerged
    /\ \E i, k \in EntryIdxs :
          i < k /\ res.places[i].type = "pincode" /\ res.places[k].type = "neighborhood"
    /\ \E i, k \in EntryIdxs :
          /\ i < k /\ res.places[i].distance_km = res.places[k].distance_km
          /\ res.places[i].type # res.places[k].type

-----------------------------------------------------------------------------
(* Properties of the item endpoints *)

IsItems == res.kind = "items"

\* A parameter that is given and is a non-negative integer in decimal digits.
IsNonNegInt(param) ==
    /\ IsSome(param)
    /\ Len(Get(param)) > 0
    /\ \A i \in 1..Len(Get(param)) : IsDigit(Get(param)[i])

PagedByNumbers ==
    /\ IsItems
    /\ IsNonNegInt(res.query.current_page)
    /\ IsNonNegInt(res.query.items_per_page)

RequestedPage == DigitsValue(Get(res.query.current_page))
RequestedSize == DigitsValue(Get(res.query.items_per_page))
FilteredCount == Len(FilteredItems(res.query))

\* C6 (as the specification states it): for every non-negative page p and
\* page size s, zero included, GET /api/v1/items reports
\* total_pages = ceil(n / s) and returns min(s, max(0, n - (p - 1) * s))
\* items, n being the size of the filtered collection.  (For s = 0 only the
\* number of items is compared: no ceil(n / 0) is computed here.)
C6_PaginationAsRequested ==
    PagedByNumbers =>
        /\ RequestedSize > 0 =>
               res.total_pages =
                   toString((FilteredCount + RequestedSize - 1) \div RequestedSize)
        /\ Len(res.items) =
               Min(RequestedSize,
                   Max(0, FilteredCount - (RequestedPage - 1) * RequestedSize))

\* C6 (amended): the page arithmetic holds for the page and the page size
\* the service works with: page 0 is served as page 1, and page size 0 as
\* page size 10.  With these, total_pages = ceil(n / size) and the response
\* has min(size, max(0, n - (page - 1) * size)) items.
C6_PaginationEffective ==
    PagedByNumbers =>
        LET page == IF RequestedPage = 0 THEN 1 ELSE RequestedPage
            size == IF RequestedSize = 0 THEN 10 ELSE RequestedSize
        IN  /\ res.total_count = toString(FilteredCount)
            /\ res.total_pages = toString((FilteredCount + size - 1) \div size)
            /\ res.current_page = toString(page)
            /\ res.items_per_page = toString(size)
            /\ Len(res.items) = Min(size, Max(0, FilteredCount - (page - 1) * size))

\* A request for page 0 with page size 0 over a non-empty filtered
\* collection, and a request for a last page that is not full.
C6_Witness ==
    /\ PagedByNumbers
    /\ FilteredCount = 3
    /\ \/ RequestedPage = 0 /\ RequestedSize = 0 /\ Len(res.items) = 3
       \/ RequestedPage = 2 /\ RequestedSize = 2 /\ Len(res.items) = 1

\* The filter a parameter applies: none when it is absent or empty.
SameFilter(a, b) ==
    /\ (a = <<>> \/ Get(a) = <<>>) <=> (b = <<>> \/ Get(b) = <<>>)
    /\ IsSome(a) /\ IsSome(b) /\ Get(a) # <<>> => Get(a) = Get(b)
SameAtomFilter(a, b) ==
    /\ IsSome(a) <=> IsSome(b)
    /\ IsSome(a) /\ IsSome(b) => Get(a) = Get(b)

\* C7: the request made from the next_page_api of a response applies the
\* searchtext, sub-category-id and languages filters of the request that
\* produced the response, an absent filter staying absent, and returns the
\* following page of the same filtered collection.
C7_NextPageKeepsFilters ==
    IsItems /\ IsSome(res.follows) =>
        LET q0 == Get(res.follows)
            start == PageOf(q0) * LimitOf(q0)
        IN  /\ SameFilter(res.query.searchtext, q0.searchtext)
            /\ SameAtomFilter(res.query.subCategoryId, q0.subCategoryId)
            /\ SameFilter(res.query.languages, q0.languages)
            /\ res.current_page = toString(PageOf(q0) + 1)
            /\ res.src = slice(FilteredItems(q0), start, start + LimitOf(q0))

\* C8: a successful PUT /api/v1/item/:id sets the fields the body names to
\* the body's values, keeps every other field of the stored item, and
\* returns as updated_item the item as it is stored afterwards.
C8_PutMergesShallowly ==
    res.kind = "item_put" /\ res.status = 200 =>
        /\ DOMAIN res.updated_item = DOMAIN res.before \cup DOMAIN res.body
        /\ \A k \in DOMAIN res.body : res.updated_item[k] = res.body[k]
        /\ \A k \in DOMAIN res.before \ DOMAIN res.body :
               res.updated_item[k] = res.before[k]
        /\ res.index \in 1..Len(jsonData)
        /\ jsonData[res.index] = res.updated_item

\* A PUT that overwrites a field of the stored item and keeps others.
C8_Witness ==
    /\ res.kind = "item_put"
    /\ res.status = 200
    /\ \E k \in DOMAIN res.body \cap DOMAIN res.before : res.before[k] # res.body[k]
    /\ DOMAIN res.before \ DOMAIN res.body # {}

\* The codes of the languages parameter of the request.
RequestedCodes == split(Get(res.query.languages), ",")

\* The item at position i of the collection supports none of the codes.
SupportsNone(i, codes) ==
    \A k \in 1..Len(jsonData[i]["languages"]) :
        \A l \in 1..Len(codes) : jsonData[i]["languages"][k] # codes[l]

WholeCollectionOnOnePage ==
    /\ IsItems
    /\ res.current_page = <<"1">>
    /\ DigitsValue(res.items_per_page) >= Len(jsonData)

\* C9 (as the specification states it): when the languages parameter names
\* only codes an item does not support, the response contains the item, with
\* multiline_text "(No matching text found)".  (Stated of the items that
\* pass the other filters, and of a page that holds the whole collection.)
C9_UnsupportedShownWithSentinel ==
    WholeCollectionOnOnePage /\ TruthyStr(res.query.languages) =>
        \A k \in 1..Len(CategoryFiltered(res.query)) :
            LET i == CategoryFiltered(res.query)[k]
            IN  SupportsNone(i, RequestedCodes) =>
                    \E m \in 1..Len(res.src) :
                        /\ res.src[m] = i
                        /\ res.items[m]["multiline_text"] = NoMatchingText

\* The 0-based slot of a code in the table en, ta, hi, te, kn, ml.
CodeTable == <<en, ta, hi, <<"t", "e">>, <<"k", "n">>, <<"m", "l">>>>
HasSlot(code) == \E n \in 1..Len(CodeTable) : CodeTable[n] = code
SlotOf(code) == (CHOOSE n \in 1..Len(CodeTable) : CodeTable[n] = code) - 1

\* The n-th newline-separated segment of text (n from 0): the characters
\* between the n-th newline and the next one.
Newlines(text) == {i \in 1..Len(text) : text[i] = "\n"}
NthNewline(text, n) ==
    CHOOSE i \in Newlines(text) : Cardinality({j \in Newlines(text) : j <= i}) = n
Segment(text, n) ==
    IF n > Cardinality(Newlines(text)) THEN <<>>
    ELSE LET first == IF n = 0 THEN 1 ELSE NthNewline(text, n) + 1
             last == IF n = Cardinality(Newlines(text)) THEN Len(text)
                     ELSE NthNewline(text, n + 1) - 1
         IN  SubSeq(text, first, last)

\* The non-empty segments of text at the slots of the codes, in the order
\* of the codes.
Surviving(text, codes) ==
    SelectSeq([l \in 1..Len(codes) |->
                   IF HasSlot(codes[l]) THEN Segment(text, SlotOf(codes[l])) ELSE <<>>],
              LAMBDA seg : seg # <<>>)

\* t is the segments with one newline between neighbours.
IsNewlineJoinOf(t, segs) ==
    /\ Len(segs) > 0
    /\ Len(split(t, "\n")) = Len(segs)
    /\ \A n \in 1..Len(segs) : Segment(t, n - 1) = segs[n]

\* C9 (amended): when the languages parameter names only codes an item does
\* not support, the response does not contain the item.  A returned item
\* has multiline_text "(No matching text found)" exactly when it has no
\* non-empty segment at the slot of any requested code.
C9_UnsupportedDropped ==
    IsItems /\ TruthyStr(res.query.languages) =>
        /\ \A m \in 1..Len(res.src) : ~SupportsNone(res.src[m], RequestedCodes)
        /\ res.total_count =
               toString(Cardinality({k \in 1..Len(CategoryFiltered(res.query)) :
                   ~SupportsNone(CategoryFiltered(res.query)[k], RequestedCodes)}))
        /\ \A m \in 1..Len(res.src) :
               Surviving(jsonData[res.src[m]]["multiline_text"], RequestedCodes) = <<>>
                   => res.items[m]["multiline_text"] = NoMatchingText

\* One item that supports no requested code is left out, and another that
\* supports one but has no text for it is returned with the sentinel.
C9_Witness ==
    /\ WholeCollectionOnOnePage
    /\ TruthyStr(res.query.languages)
    /\ \E k \in 1..Len(CategoryFiltered(res.query)) :
           /\ SupportsNone(CategoryFiltered(res.query)[k], RequestedCodes)
           /\ \A m \in 1..Len(res.src) : res.src[m] # CategoryFiltered(res.query)[k]
    /\ \E m \in 1..Len(res.src) : res.items[m]["multiline_text"] = NoMatchingText

\* C10 (as the specification states it): with a languages parameter, the
\* multiline_text of a returned item is the newline-join of the non-empty
\* segments of its text at the slots of the requested codes, in request
\* order; it is "(No matching text found)" exactly when there is no such
\* segment, and it is never the empty string.
C10_SentinelExactlyWhenNoSegment ==
    IsItems /\ TruthyStr(res.query.languages) =>
        \A m \in 1..Len(res.items) :
            LET text == jsonData[res.src[m]]["multiline_text"]
                segs == Surviving(text, RequestedCodes)
                shown == res.items[m]["multiline_text"]
            IN  /\ segs # <<>> => IsNewlineJoinOf(shown, segs)
                /\ segs = <<>> <=> shown = NoMatchingText
                /\ shown # <<>>

\* C10 (amended): with a languages parameter, the multiline_text of a
\* returned item is "(No matching text found)" when no non-empty segment of
\* its text is at the slot of a requested code, and otherwise the
\* newline-join of those segments in request order (which is the sentinel
\* text itself when the item's own segment spells it); it is never the
\* empty string.  Every other field is the stored item's.
C10_LanguageExtraction ==
    IsItems /\ TruthyStr(res.query.languages) =>
        \A m \in 1..Len(res.items) :
            LET text == jsonData[res.src[m]]["multiline_text"]
                segs == Surviving(text, RequestedCodes)
                shown == res.items[m]["multiline_text"]
            IN  /\ segs # <<>> => IsNewlineJoinOf(shown, segs)
                /\ segs = <<>> => shown = NoMatchingText
                /\ shown # <<>>
                /\ DOMAIN res.items[m] = DOMAIN jsonData[res.src[m]]
                /\ \A key \in DOMAIN res.items[m] \ {"multiline_text"} :
                       res.items[m][key] = jsonData[res.src[m]][key]

\* languages=hi,en returns the hi segment before the en segment of one
\* item, and the sentinel for an item without a segment at either slot.
C10_Witness ==
    /\ IsItems
    /\ res.query.languages = Some(<<"h", "i", ",", "e", "n">>)
    /\ \E m \in 1..Len(res.items) :
           /\ res.items[m]["multiline_text"] = <<"U+0928", "\n", "H", "i">>
           /\ jsonData[res.src[m]]["multiline_text"][1] = "H"
    /\ \E m \in 1..Len(res.items) :
           /\ res.items[m]["multiline_text"] = NoMatchingText
           /\ jsonData[res.src[m]]["multiline_text"] = <<"\n", "x">>

\* C11: GET /api/v1/item/random answers 404 only when the item store is
\* empty, and with an item of the store whenever the store is not empty.
C11_RandomFromNonEmptyStore ==
    res.kind = "item_random" =>
        /\ res.status = 404 <=> jsonData = <<>>
        /\ jsonData # <<>> =>
               /\ res.status = 200
               /\ \E i \in 1..Len(jsonData) : jsonData[i] = res.item

\* C12: GET /api/v1/pincode/nearby (with valid lat and lng) and
\* GET /api/v1/pincode/states are answered by their own handlers, with the
\* postal records within the range and with the sorted distinct state
\* names, never by the lookup of /api/v1/pincode/:pincode.
C12_StaticPostalPathsOwnHandlers ==
    /\ res.kind = "pincode_states" =>
           /\ PincodeGetRoutes[res.route] = RoutePincodeStates
           /\ res.status = 200
           /\ res.states = PincodeStates
    /\ res.kind = "pincode_nearby" /\ PlacesParams("pincode_nearby", res.query).ok =>
           /\ PincodeGetRoutes[res.route] = RoutePincodeNearby
           /\ res.status = 200
           /\ \A k \in 1..Len(res.pincodes) :
                  res.pincodes[k].distance_km <= res.input.range

\* part occurs in text, letters compared without regard to case.
ContainsIgnoringCase(text, part) ==
    \E i \in 0..(Len(text) - Len(part)) :
        \A k \in 1..Len(part) : toLowerCase(text[i + k]) = toLowerCase(part[k])
Contains(text, part) ==
    \E i \in 0..(Len(text) - Len(part)) : \A k \in 1..Len(part) : text[i + k] = part[k]

\* The record at position j satisfies every filter the query supplies.
SatisfiesFilters(j, q) ==
    LET record == pincodeData[j]
    IN  /\ IsSome(q.pincode) => Contains(String(record.Pincode), Get(q.pincode))
        /\ IsSome(q.state) =>
               /\ IsSome(record.StateName)
               /\ Get(record.StateName) # <<>>
               /\ ContainsIgnoringCase(Get(record.StateName), Get(q.state))
        /\ IsSome(q.district) =>
               /\ IsSome(record.District)
               /\ Get(record.District) # <<>>
               /\ ContainsIgnoringCase(Get(record.District), Get(q.district))
        /\ IsSome(q.office) =>
               ContainsIgnoringCase(String(record.OfficeName), Get(q.office))

\* C17: GET /api/v1/pincode/search returns, in directory order, exactly the
\* postal records that satisfy every filter the query supplies (pincode
\* substring; state, district and office substring without regard to
\* case); with no filter it returns the whole directory; count is the
\* number of records returned.
C17_SearchReturnsMatches ==
    res.kind = "pincode_search" =>
        /\ res.status = 200
        /\ Len(res.results) = Len(res.src)
        /\ \A k \in 1..Len(res.src) : res.results[k] = pincodeData[res.src[k]]
        /\ \A k \in 1..(Len(res.src) - 1) : res.src[k] < res.src[k + 1]
        /\ {res.src[k] : k \in 1..Len(res.src)} =
               {j \in 1..Len(pincodeData) : SatisfiesFilters(j, res.query)}
        /\ res.count = Len(res.results)
        /\ res.query = NoQuery => res.results = pincodeData

\* A search with a state filter and an office filter, in another case than
\* the directory's, that returns one record of two.
C17_Witness ==
    /\ res.kind = "pincode_search"
    /\ IsSome(res.query.state)
    /\ IsSome(res.query.office)
    /\ Len(pincodeData) = 2
    /\ res.count = 1

\* The text is a number and nothing else: a sign at most, digits, one
\* decimal point at most.
IsNumberText(s) ==
    LET body == Unsigned(s)
    IN  /\ \E i \in 1..Len(body) : IsDigit(body[i])
        /\ \A i \in 1..Len(body) : IsDigit(body[i]) \/ body[i] = "."
        /\ Cardinality({i \in 1..Len(body) : body[i] = "."}) <= 1

IsNearbyRequest ==
    res.kind \in {"neighborhoods_nearby", "places_nearby", "places_nearby_enhanced"}

\* C13: the nearby endpoints answer 400, without a result list, when lat or
\* lng is missing or when lat, lng or a supplied range is not a well-formed
\* number, a number followed by other characters included.
C13_MalformedNumberRefused ==
    IsNearbyRequest =>
        ( ( \/ ~IsSome(res.query.lat)
            \/ ~IsSome(res.query.lng)
            \/ ~IsNumberText(Get(res.query.lat))
            \/ ~IsNumberText(Get(res.query.lng))
            \/ IsSome(res.query.range) /\ ~IsNumberText(Get(res.query.range)) )
          => res.status = 400 /\ "places" \notin DOMAIN res )

\* The neighborhoods and the postal records of the entries of a response.
NeighborhoodsShown ==
    IF res.kind = "neighborhoods_nearby"
    THEN {res.places[k].idx : k \in EntryIdxs}
    ELSE {res.places[k].idx : k \in NeighborhoodIdxs}

\* C19: in every geo endpoint the radius predicate compares the unrounded
\* distance with the range: the neighborhoods of a response are those
\* whose distance to the query point is at most the range, and no postal
\* record of a response is farther than the range.
C19_RadiusComparesUnrounded ==
    IsGeo =>
        /\ NeighborhoodsShown =
               {i \in 1..Len(neighborhoodsData) :
                   haversineDistance(res.input.lat, res.input.lng,
                                     neighborhoodsData[i].latitude,
                                     neighborhoodsData[i].longitude) <= res.input.range}
        /\ IsMerged =>
               \A k \in PincodeIdxs : PostalDistance(res.places[k].idx) <= res.input.range

\* C20: in a response of /places/nearby/enhanced, the matchType of a
\* neighborhood entry's pincodeInfo is "exact" only if the postal record
\* was found by equality of the postal code, and "nearest" whenever it was
\* found by the search of the nearest record within 5 km.
C20_MatchTypeTellsHowMatched ==
    IsEnhanced =>
        \A k \in NeighborhoodIdxs :
            LET e == res.places[k]
            IN  IsSome(e.pincodeInfo) =>
                    /\ Get(e.pincodeInfo).matchType = Some("exact") => MatchedByEquality(e)
                    /\ ~MatchedByEquality(e) => Get(e.pincodeInfo).matchType = Some("nearest")

\* C14: GET, DELETE and PUT of /api/v1/item/:id with an id that is the
\* category-id of no stored item answer 404 and leave the item store as it
\* was (contents, order and length).
C14_UnknownIdNotFound ==
    [][ ( /\ res'.kind \in {"item_get", "item_delete", "item_put"}
          /\ res.kind = "none"
          /\ \A i \in 1..Len(jsonData) : jsonData[i]["category-id"] # res'.id )
        => res'.status = 404 /\ jsonData' = jsonData ]_vars

\* A DELETE and a PUT with an unknown id, answered 404 by a store that
\* holds items.
C14_Witness ==
    /\ res.kind \in {"item_delete", "item_put"}
    /\ res.status = 404
    /\ res.id = "Z"
    /\ Len(jsonData) >= 2

\* The requests that are GET requests.
GetKinds ==
    {"items", "item_get", "item_random", "items_sorted", "data_full", "languages",
     "categories", "neighborhoods_nearby", "places_nearby", "places_nearby_enhanced",
     "pincode_search", "pincode_by_code", "pincode_nearby", "pincode_states"}

\* C16: no GET request changes the item store: the stored items and their
\* order are the same after the request as before it.
C16_GetLeavesStore ==
    [][res.kind = "none" /\ res'.kind \in GetKinds => jsonData' = jsonData]_vars


\* The first value of an ordered key list that is neither missing nor
\* "N/A", None when no key holds such a value.
FirstRealValue(values) ==
    LET real == {k \in 1..Len(values) :
                    TruthyAtom(values[k]) /\ Get(values[k]) # "N/A"}
    IN  IF real = {} THEN None
        ELSE values[CHOOSE k \in real : \A m \in real : k <= m]

NeighborhoodEntryIdxs ==
    IF res.kind = "neighborhoods_nearby" THEN EntryIdxs ELSE NeighborhoodIdxs

\* C15: each of the two constituency fields of a neighborhood entry holds
\* the first value of the field's ordered key list that is neither missing
\* nor "N/A", and null only when no key holds such a value: an earlier key
\* holding "N/A" does not hide a real value under a later key.
C15_ConstituencyFirstRealValue ==
    IsGeo =>
        \A k \in NeighborhoodEntryIdxs :
            LET e == res.places[k]
                place == neighborhoodsData[e.idx]
            IN  /\ e.lokSabhaConstituency =
                       FirstRealValue(<<place.lokSabhaConstituency,
                                        place.LokSabhaConstituency>>)
                /\ e.vidhanSabhaConstituency =
                       FirstRealValue(<<place.vidhanSabhaConstituency,
                                        place.VidhanSabhaConstituency,
                                        place.AssemblyConstituency>>)


-----------------------------------------------------------------------------
(* Properties of the distance function *)

\* C18: the distance function is symmetric and zero on identical points:
\* haversineDistance(a, b) = haversineDistance(b, a) and
\* haversineDistance(a, a) = 0 for all points a and b.
C18_DistanceSymmetricZeroOnSame ==
    res.kind = "distance" =>
        /\ res.distance = haversineDistance(res.b.lat, res.b.lon, res.a.lat, res.a.lon)
        /\ haversineDistance(res.a.lat, res.a.lon, res.a.lat, res.a.lon) = 0
        /\ res.a = res.b => res.distance = 0

\* Two points that differ in latitude and in longitude, a distance apart.
C18_Witness ==
    /\ res.kind = "distance"
    /\ res.a.lat # res.b.lat
    /\ res.a.lon # res.b.lon
    /\ cos(toRad(res.a.lat)) # cos(toRad(res.b.lat))
    /\ res.distance > 0


-----------------------------------------------------------------------------
(* Properties of the reconciliation of neighborhoods with postal records *)

\* Some postal record carries the neighborhood's postal code.
HasExactMatch(place) ==
    /\ TruthyAtom(place.pincode)
    /\ \E j \in 1..Len(pincodeData) : pincodeData[j].Pincode = Get(place.pincode)

\* The distance of the neighborhood to the postal record at position j.
DistanceToRecord(place, j) ==
    haversineDistance(place.latitude, place.longitude,
                      Get(pincodeData[j].Latitude), Get(pincodeData[j].Longitude))

\* The postal records with coordinates within 5 km of the neighborhood.
RecordsWithin5km(place) ==
    {j \in 1..Len(pincodeData) :
        HasCoordinates(pincodeData[j]) /\ DistanceToRecord(place, j) <= 5000}

\* C21: in a response of /places/nearby/enhanced, for every neighborhood
\* entry without an exact postal-code match, pincodeInfo is null if and only
\* if no postal record with coordinates lies within 5 km of the
\* neighborhood's own coordinates; otherwise pincodeInfo describes the
\* record at minimal distance to the neighborhood, the first in directory
\* order on ties, whatever the query point and the query range.
C21_NearestWithin5km ==
    IsEnhanced =>
        \A k \in NeighborhoodIdxs :
            LET e == res.places[k]
                place == neighborhoodsData[e.idx]
                near == RecordsWithin5km(place)
            IN  ~HasExactMatch(place) =>
                    /\ e.pincodeInfo = None <=> near = {}
                    /\ near # {} =>
                          LET rec == Get(e.pincodeInfo).rec
                          IN  /\ rec \in near
                              /\ \A j \in near :
                                    \/ DistanceToRecord(place, rec) < DistanceToRecord(place, j)
                                    \/ /\ DistanceToRecord(place, rec) = DistanceToRecord(place, j)
                                       /\ rec <= j

\* C21's case: a neighborhood entry without an exact match has two postal
\* records within 5 km, the nearer one later in the directory.
C21_Witness ==
    /\ IsEnhanced
    /\ \E k \in NeighborhoodIdxs :
          LET place == neighborhoodsData[res.places[k].idx]
          IN  /\ ~HasExactMatch(place)
              /\ \E i \in RecordsWithin5km(place), j \in RecordsWithin5km(place) :
                    i < j /\ DistanceToRecord(place, j) < DistanceToRecord(place, i)

\* C21's other case: a neighborhood entry without an exact match and with
\* no postal record within 5 km, while the directory holds records with
\* coordinates.
C21_WitnessNull ==
    /\ IsEnhanced
    /\ \E k \in NeighborhoodIdxs :
          LET place == neighborhoodsData[res.places[k].idx]
          IN  /\ ~HasExactMatch(place)
              /\ RecordsWithin5km(place) = {}
              /\ \E j \in 1..Len(pincodeData) : HasCoordinates(pincodeData[j])


-----------------------------------------------------------------------------
(* Properties of the text search *)

\* The response in flight answers a text search.
IsTextSearch ==
    \/ res.kind = "search"
    \/ res.kind = "items" /\ TruthyStr(res.query.searchtext)

\* C22: a text search (GET /items with searchtext, GET /search/:searchtext)
\* over a store in which some item lacks multiline_text lets no exception
\* escape the handler: it answers with a response of the handler, in which
\* no item without text is among the items found.
C22_SearchToleratesMissingText ==
    IsTextSearch /\ (\E i \in 1..Len(jsonData) : ~HasText(jsonData[i])) =>
        /\ res.status # 500
        /\ "error" \notin DOMAIN res
        /\ \A k \in 1..Len(res.src) : HasText(jsonData[res.src[k]])


-----------------------------------------------------------------------------
(* Properties of the page parameters *)

\* C24: whatever current_page and items_per_page are supplied to GET /items
\* (missing, non-numeric, zero or negative), the effective page is an
\* integer >= 1 and the effective page size is an integer >= 1, so that the
\* reported total_pages is never negative and the slice start index is
\* never negative.
C24_PageAndSizeAtLeastOne ==
    res.kind = "items" /\ res.status = 200 =>
        LET page == parseInt(res.current_page).v
            limit == parseInt(res.items_per_page).v
        IN  /\ page >= 1
            /\ limit >= 1
            /\ parseInt(res.total_pages).v >= 0
            /\ (page - 1) * limit >= 0


\* C21's case of a tie: a neighborhood entry without an exact match has two
\* postal records within 5 km at the same, minimal, distance.
C21_WitnessTie ==
    /\ IsEnhanced
    /\ \E k \in NeighborhoodIdxs :
          LET place == neighborhoodsData[res.places[k].idx]
          IN  /\ ~HasExactMatch(place)
              /\ \E i \in RecordsWithin5km(place), j \in RecordsWithin5km(place) :
                    /\ i < j
                    /\ DistanceToRecord(place, j) = DistanceToRecord(place, i)
                    /\ Get(res.places[k].pincodeInfo).rec = i


-----------------------------------------------------------------------------
(* Properties of the pages of one query *)

\* The query of the response in flight with another page number.
PageQuery(p) == [res.query EXCEPT !.current_page = Some(toString(p))]

\* The positions in jsonData of the items of pages 1..n of the query of
\* the response in flight, in page order.
RECURSIVE PagesUpTo(_)
PagesUpTo(n) ==
    IF n = 0 THEN <<>> ELSE PagesUpTo(n - 1) \o ItemsResponse(PageQuery(n), None).src

\* The response in flight answers GET /items with a page size of at least 1.
IsPaged ==
    /\ res.kind = "items"
    /\ res.status = 200
    /\ parseInt(res.items_per_page).v >= 1

\* C23: for GET /items with fixed filters and items_per_page >= 1 against an
\* unmutated store, the slices of pages 1..total_pages, concatenated in page
\* order, are the filtered collection (every filtered item on exactly one
\* page, in collection order), and a page beyond total_pages holds an empty
\* list, not an error.
C23_PagesPartitionFiltered ==
    IsPaged =>
        LET total_pages == parseInt(res.total_pages).v
            page == parseInt(res.current_page).v
        IN  /\ PagesUpTo(total_pages) = FilteredItems(res.query)
            /\ page > total_pages => res.items = <<>>
            /\ ItemsResponse(PageQuery(total_pages + 1), None).status = 200
            /\ ItemsResponse(PageQuery(total_pages + 1), None).items = <<>>

\* C23's case: a page beyond the first of a filtered collection of several
\* pages that is smaller than the store.
C23_Witness ==
    /\ IsPaged
    /\ parseInt(res.total_pages).v >= 2
    /\ parseInt(res.current_page).v >= 2
    /\ res.items # <<>>
    /\ Len(FilteredItems(res.query)) < Len(jsonData)


-----------------------------------------------------------------------------
(* Properties of concurrent mutations *)

\* The clients whose DELETE was answered with success.
Deleted(r) ==
    {c \in Clients : /\ r.clients[c].state = "answered"
                     /\ r.clients[c].request.method = "DELETE"
                     /\ r.clients[c].response.status = 200}

\* The handler of the request of client c runs in this step.
Handled(c) ==
    /\ res.kind = "concurrent"
    /\ res.clients[c].state = "pending"
    /\ res'.clients[c].state = "answered"

\* The step removes one record, which carries the id, and nothing else.
RemovesOnly(id) ==
    \E i \in 1..Len(jsonData) :
        /\ jsonData[i]["category-id"] = id
        /\ jsonData' = SubSeq(jsonData, 1, i - 1) \o SubSeq(jsonData, i + 1, Len(jsonData))

\* The step overwrites one record, which carries the id, and nothing else.
OverwritesOnly(id) ==
    /\ Len(jsonData') = Len(jsonData)
    /\ \E i \in 1..Len(jsonData) :
          /\ jsonData[i]["category-id"] = id
          /\ \A j \in 1..Len(jsonData) : j # i => jsonData'[j] = jsonData[j]

HandlerAtomic ==
    \A c \in Clients :
        Handled(c) =>
            LET request == res.clients[c].request
                response == res'.clients[c].response
            IN  IF response.status # 200 THEN jsonData' = jsonData
                ELSE IF request.method = "DELETE" THEN RemovesOnly(request.id)
                ELSE OverwritesOnly(request.id)

\* C25: under any interleaving of concurrent PUT and DELETE requests, the
\* lookup-then-mutate step of each handler is atomic: a DELETE for an id
\* removes only a record that carries the id at the moment of removal, a
\* PUT for an id overwrites only such a record, and the length of the store
\* is its initial length minus the number of DELETE requests answered with
\* success.
C25_MutationsAtomic ==
    /\ [](res.kind = "concurrent" =>
             Len(jsonData) = res.initial - Cardinality(Deleted(res)))
    /\ [][HandlerAtomic]_vars

\* C25's case: three requests for the same id were in flight together; the
\* PUT was handled first and the DELETE second, both with success, and the
\* third request was answered 404.
C25_Witness ==
    /\ res.kind = "concurrent"
    /\ \A c \in Clients : res.clients[c].state = "answered"
    /\ \E c, d, e \in Clients :
          /\ res.clients[d].among = {c, e}
          /\ res.clients[c].among = {e}
          /\ res.clients[c].request.method = "DELETE"
          /\ res.clients[d].request.method = "PUT"
          /\ res.clients[c].request.id = res.clients[d].request.id
          /\ res.clients[e].request.id = res.clients[c].request.id
          /\ res.clients[c].response.status = 200
          /\ res.clients[d].response.status = 200
          /\ res.clients[e].response.status = 404


-----------------------------------------------------------------------------
(* Properties of DELETE /api/v1/item/:id *)

\* The request in this step is a DELETE that is answered with success.
DeleteSucceeds ==
    res.kind = "none" /\ res'.kind = "item_delete" /\ res'.status = 200

\* The positions of the items of the store that carry the id.
Carrying(store, id) == {i \in 1..Len(store) : store[i]["category-id"] = id}

\* C26: a successful DELETE /item/:id removes exactly one record, the first
\* in store order that carries the id, keeps all other records in their
\* order, and reports the new length of the store as total_count; a GET of
\* the id after it still succeeds when several items carried the id, and
\* gives 404 only when the id was carried by one item.
C26_DeleteRemovesFirst ==
    [][\A id \in ItemIds :
          DeleteSucceeds /\ res'.id = id =>
          LET first == CHOOSE i \in Carrying(jsonData, id) :
                           \A j \in Carrying(jsonData, id) : i <= j
          IN  /\ Carrying(jsonData, id) # {}
              /\ jsonData' = [k \in 1..(Len(jsonData) - 1) |->
                                 IF k < first THEN jsonData[k] ELSE jsonData[k + 1]]
              /\ res'.total_count = toString(Len(jsonData'))
              /\ Cardinality(Carrying(jsonData, id)) > 1
                     <=> ItemByIdResponse("item_get", id)'.status = 200
              /\ Cardinality(Carrying(jsonData, id)) = 1
                     <=> ItemByIdResponse("item_get", id)'.status = 404]_vars

\* C26's case: a DELETE was answered with success for an id that an item
\* of the store still carries, after an item with another id.
C26_Witness ==
    /\ res.kind = "item_delete"
    /\ res.status = 200
    /\ Len(jsonData) >= 2
    /\ jsonData[1]["category-id"] # res.id
    /\ jsonData[2]["category-id"] = res.id


-----------------------------------------------------------------------------
(* Properties of the normalization of the search text *)

\* The text is not empty and holds no ASCII letter, no ASCII digit and no
\* space.
OnlyOutside(text) ==
    /\ text # <<>>
    /\ \A i \in 1..Len(text) :
          ~(IsUpper(text[i]) \/ IsLower(text[i]) \/ IsDigit(text[i]) \/ text[i] = " ")

\* The response in flight answers a text search for such a text.
IsSearchOutside ==
    /\ res.kind \in {"search", "items"}
    /\ res.status = 200
    /\ \/ res.kind = "search" /\ OnlyOutside(res.search_text)
       \/ /\ res.kind = "items"
          /\ IsSome(res.query.searchtext)
          /\ OnlyOutside(Get(res.query.searchtext))

\* C27: in GET /items and GET /search/:searchtext, a searchtext that is not
\* empty and is made only of characters outside the ASCII letters, the
\* ASCII digits and the space normalizes to the empty string and keeps
\* every item of the collection: the search predicate filters nothing out.
\* (The answer to a search over a store with an item that has no text is
\* the subject of C22.)
C27_OutsideTextKeepsAll ==
    IsSearchOutside =>
        IF res.kind = "search"
        THEN /\ normalizeText(res.search_text) = <<>>
             /\ res.src = Indices(jsonData)
             /\ res.results = jsonData
        ELSE /\ normalizeText(Get(res.query.searchtext)) = <<>>
             /\ res.total_count =
                    toString(Len(FilteredItems([res.query EXCEPT !.searchtext = None])))
             /\ res.src =
                    ItemsResponse([res.query EXCEPT !.searchtext = None], None).src

\* C27's case: such a search over a store with an item whose text does not
\* hold the searchtext.
C27_Witness ==
    /\ IsSearchOutside
    /\ Len(res.src) >= 2
    /\ \E k \in 1..Len(res.src) :
          LET text == jsonData[res.src[k]]["multiline_text"]
              word == IF res.kind = "search" THEN res.search_text
                      ELSE Get(res.query.searchtext)
          IN  ~includes(text, word)

=============================================================================
